---- MODULE Spec2Model ----
(***************************************************************************)
(* A model of gsc-mcp-server: the Search Console client (retry wrapper and *)
(* pagination, src/src/gsc/client.ts), the search-analytics tool handlers  *)
(* (src/src/server/tools/searchAnalytics.ts) and the tool dispatcher       *)
(* (src/src/server/tools/index.ts).                                        *)
(*                                                                         *)
(* Conventions.                                                            *)
(*  - A JavaScript value that may be undefined is a sequence of length at  *)
(*    most one: None is undefined, Some(x) is x.                           *)
(*  - A row array is a sequence of blocks [n, row]: n consecutive copies   *)
(*    of the same row.  The array's length is the sum of the n's; every    *)
(*    array operation of the code (length, push(...rows), map, reduce) is  *)
(*    modelled on blocks with exactly the result it has on the expanded    *)
(*    array.  This keeps pages of 25000 rows representable.                *)
(*  - A string the code searches in (an error message) is a sequence of    *)
(*    one-character strings.                                               *)
(*  - A number with a fractional part is a pair <<numerator, denominator>> *)
(*    with a positive denominator.                                         *)
(***************************************************************************)
EXTENDS Integers, Sequences, FiniteSets, TLC

VARIABLES
    client,    \* [Slots -> execution of one GSCClient operation]
    tool,      \* the tool invocation handled by handleToolCall
    rollup,    \* one application of rollupByGranularity
    timezone,  \* the process's offset from UTC, in minutes (local = UTC + offset)
    formatter, \* one application of stripUrlPrefix or formatRows
    cache,     \* the CacheStore: its query_cache table, the clock, the last result
    resource   \* the resources advertised and one handleResourceRead

vars == <<client, tool, rollup, timezone, formatter, cache, resource>>

(***************************************************************************)
(* Program constants                                                       *)
(***************************************************************************)
MAX_RETRIES == 3
RETRY_DELAY_MS == 1000
MAX_ROWS_PER_REQUEST == 25000
CLIENT_DEFAULT_ROW_LIMIT == 1000
DEFAULT_ROW_LIMIT == 25
EXPORT_DEFAULT_ROW_LIMIT == 1000

(***************************************************************************)
(* Bounds of the model                                                     *)
(***************************************************************************)
\* the largest number of pages a modelled rowLimit asks for
MaxPages == 3
\* the largest number of row blocks given to rollupByGranularity
MaxRollupRows == 2
\* the row dates given to rollupByGranularity run over this many days
\* from 2023-12-30 (a Saturday)
DateSpan == 8

(***************************************************************************)
(* Optional values and arithmetic helpers                                  *)
(***************************************************************************)
None == <<>>
Some(x) == <<x>>
IsSome(o) == Len(o) = 1
Get(o) == o[1]

\* `o || d` for an optional number: undefined and 0 both give d
OrDefault(o, d) == IF IsSome(o) /\ Get(o) # 0 THEN Get(o) ELSE d

\* destructuring default `{ x = d }`: only undefined gives d
DestructureDefault(o, d) == IF IsSome(o) THEN Get(o) ELSE d

Min(a, b) == IF a < b THEN a ELSE b

\* ceil(a / b) for a >= 0, b > 0 (used by the properties only)
CeilDiv(a, b) == (a + b - 1) \div b

(***************************************************************************)
(* Remote failures: an HTTP status (0 for a network failure, which has     *)
(* none) and the message the Error carries.                                *)
(***************************************************************************)
MsgQuota == <<"Q","u","o","t","a"," ","e","x","c","e","e","d","e","d">>
MsgRateLimit == <<"R","a","t","e"," ","L","i","m","i","t"," ","E","x","c","e","e","d","e","d">>
MsgConnReset == <<"r","e","a","d"," ","E","C","O","N","N","R","E","S","E","T">>
MsgTimedOut == <<"c","o","n","n","e","c","t"," ","E","T","I","M","E","D","O","U","T">>
MsgDns == <<"g","e","t","a","d","d","r","i","n","f","o"," ","E","N","O","T","F","O","U","N","D">>
Msg500 == <<"s","t","a","t","u","s"," ","c","o","d","e"," ","5","0","0">>
Msg503 == <<"s","t","a","t","u","s"," ","c","o","d","e"," ","5","0","3">>
Msg502 == <<"s","t","a","t","u","s"," ","c","o","d","e"," ","5","0","2">>
Msg504 == <<"G","a","t","e","w","a","y"," ","T","i","m","e","o","u","t">>
Msg403 == <<"F","o","r","b","i","d","d","e","n">>
Msg403Site == <<"N","o"," ","p","e","r","m","i","s","s","i","o","n",":"," ","s","h","o","p","5","0","0",".","c","o","m">>
Msg404 == <<"N","o","t"," ","f","o","u","n","d">>
Msg400 == <<"I","n","v","a","l","i","d"," ","v","a","l","u","e">>

Err(status, message) == [status |-> status, message |-> message]
NoError == Err(0, <<>>)

ErrQuota == Err(429, MsgQuota)
ErrRateLimit == Err(429, MsgRateLimit)
ErrConnReset == Err(0, MsgConnReset)
ErrTimedOut == Err(0, MsgTimedOut)
ErrDns == Err(0, MsgDns)
Err500 == Err(500, Msg500)
Err503 == Err(503, Msg503)
Err502 == Err(502, Msg502)
Err504 == Err(504, Msg504)
Err403 == Err(403, Msg403)
Err403Site == Err(403, Msg403Site)
Err404 == Err(404, Msg404)
Err400 == Err(400, Msg400)

\* the failures the remote service produces in the client specification
RemoteErrors ==
    { ErrQuota, ErrRateLimit, ErrConnReset, ErrTimedOut, ErrDns, Err500, Err503,
      Err502, Err504, Err403, Err403Site, Err404, Err400 }

UpperCase == <<"A","B","C","D","E","F","G","H","I","J","K","L","M",
               "N","O","P","Q","R","S","T","U","V","W","X","Y","Z">>
LowerCase == <<"a","b","c","d","e","f","g","h","i","j","k","l","m",
               "n","o","p","q","r","s","t","u","v","w","x","y","z">>

\* String.prototype.toLowerCase
ToLowerCase(s) ==
    [i \in 1..Len(s) |->
        IF \E k \in 1..26 : UpperCase[k] = s[i]
        THEN LowerCase[CHOOSE k \in 1..26 : UpperCase[k] = s[i]]
        ELSE s[i]]

\* String.prototype.includes
Includes(s, pat) ==
    \E i \in 1..(Len(s) - Len(pat) + 1) : \A j \in 1..Len(pat) : s[i + j - 1] = pat[j]

\* GSCClient.isRetryableError
IsRetryableError(error) ==
    LET message == ToLowerCase(error.message) IN
    IF Includes(message, <<"q","u","o","t","a">>)
       \/ Includes(message, <<"r","a","t","e"," ","l","i","m","i","t">>)
    THEN TRUE
    ELSE IF Includes(message, <<"e","c","o","n","n","r","e","s","e","t">>)
            \/ Includes(message, <<"e","t","i","m","e","d","o","u","t">>)
            \/ Includes(message, <<"e","n","o","t","f","o","u","n","d">>)
    THEN TRUE
    ELSE IF Includes(message, <<"5","0","0">>) \/ Includes(message, <<"5","0","3">>)
    THEN TRUE
    ELSE FALSE

(***************************************************************************)
(* Rows.  A raw row is what the service sends (any field may be missing);  *)
(* a row is a SearchAnalyticsRow.                                          *)
(***************************************************************************)
Block(n, row) == [n |-> n, row |-> row]

\* rows.length
RowCount(blocks) ==
    LET Cnt[i \in 0..Len(blocks)] == IF i = 0 THEN 0 ELSE Cnt[i - 1] + blocks[i].n
    IN Cnt[Len(blocks)]

\* the mapping of one response row (client.ts, searchAnalytics)
MapRow(raw) ==
    [ keys |-> raw.keys,
      clicks |-> OrDefault(raw.clicks, 0),
      impressions |-> OrDefault(raw.impressions, 0),
      ctr |-> IF IsSome(raw.ctr) /\ Get(raw.ctr)[1] # 0 THEN Get(raw.ctr) ELSE <<0, 1>>,
      position |-> IF IsSome(raw.position) /\ Get(raw.position)[1] # 0
                   THEN Get(raw.position) ELSE <<0, 1>> ]

\* response.data.rows?.map(...)
MapRows(rows) ==
    IF IsSome(rows)
    THEN Some([i \in 1..Len(Get(rows)) |-> Block(Get(rows)[i].n, MapRow(Get(rows)[i].row))])
    ELSE None

\* keys of rows: a date "YYYY-MM-DD", a month "YYYY-MM" or any other text
DateKey(y, m, d) == [kind |-> "date", y |-> y, m |-> m, d |-> d, text |-> ""]
MonthKey(y, m) == [kind |-> "month", y |-> y, m |-> m, d |-> 0, text |-> ""]
TextKey(t) == [kind |-> "text", y |-> 0, m |-> 0, d |-> 0, text |-> t]

RawRow(keys, clicks, impressions, ctr, position) ==
    [ keys |-> keys, clicks |-> clicks, impressions |-> impressions,
      ctr |-> ctr, position |-> position ]

\* rows the service sends in the client specification
RawShoes ==
    RawRow(Some(<<TextKey("shoes")>>), Some(120), Some(150), Some(<<8, 10>>), Some(<<32, 10>>))
RawBare == RawRow(None, None, None, None, None)

RemoteData(rows, agg) == [rows |-> rows, agg |-> agg]

\* what the service may answer to a query for rowLimit rows: no rows field,
\* an empty array, one row, or exactly rowLimit rows
Responses(rowLimit, raws) ==
    { RemoteData(None, None), RemoteData(Some(<<>>), Some("auto")) }
    \cup { RemoteData(Some(<<Block(n, r)>>), Some("auto")) :
             n \in { k \in {1, rowLimit} : k >= 1 /\ k <= rowLimit }, r \in raws }

(***************************************************************************)
(* GSCClient: one execution of a client operation                          *)
(***************************************************************************)
Slots == {1, 2}

ClientOps ==
    { "listSites", "getSite", "searchAnalytics", "listSitemaps", "getSitemap",
      "submitSitemap", "deleteSitemap", "inspectUrl" }

Query(rowLimit, startRow, dimensions, startDate, endDate) ==
    [ rowLimit |-> rowLimit, startRow |-> startRow, dimensions |-> dimensions,
      startDate |-> startDate, endDate |-> endDate ]

NoQuery == Query(None, None, None, <<1970, 1, 1>>, <<1970, 1, 1>>)

Result(kind, rows, agg, error) ==
    [kind |-> kind, rows |-> rows, agg |-> agg, error |-> error]

NoResult == Result("none", None, None, NoError)

\* calls is the log of the remote requests issued, one entry per attempt, and
\* remoteError the failure of the latest request, None once a request succeeds:
\* both are the remote service's view, written by the actions only
IdleClient ==
    [ pc |-> "idle", op |-> "", query |-> NoQuery,
      paginated |-> FALSE, allRows |-> <<>>, startRow |-> 0,
      totalRowsRequested |-> 0, rowsToFetch |-> 0, responseAggregationType |-> None,
      reqRowLimit |-> 0, reqStartRow |-> 0,
      attempt |-> 0, lastError |-> None, sleeps |-> <<>>, thrown |-> None,
      calls |-> <<>>, remoteError |-> None, result |-> NoResult ]

\* operation(): the remote request leaves the process
IssueCall(c) ==
    [c EXCEPT !.pc = "inflight",
              !.calls = Append(@, [ op |-> c.op, rowLimit |-> c.reqRowLimit,
                                    startRow |-> c.reqStartRow, attempt |-> c.attempt,
                                    outcome |-> "pending" ])]

\* withRetry, up to the first `await operation()`
WithRetry(c, rowLimit, startRow) ==
    IssueCall([c EXCEPT !.attempt = 0, !.lastError = None, !.sleeps = <<>>,
                        !.reqRowLimit = rowLimit, !.reqStartRow = startRow])

\* the operation returns to its caller
Return(c, result) == [c EXCEPT !.pc = "returned", !.result = result]

\* mutant of RowsToFetch: the per-call ceiling is forgotten
RowsToFetchUncapped(c) == c.totalRowsRequested - RowCount(c.allRows)

\* the `Math.min(MAX_ROWS_PER_REQUEST, totalRowsRequested - allRows.length)`
RowsToFetch(c) ==
    Min(MAX_ROWS_PER_REQUEST, c.totalRowsRequested - RowCount(c.allRows))

\* mutant of MorePages: the loop test admits equality
MorePagesInclusive(c) == RowCount(c.allRows) <= c.totalRowsRequested

\* the `while (allRows.length < totalRowsRequested)` test
MorePages(c) == RowCount(c.allRows) < c.totalRowsRequested

\* searchAnalyticsPaginated: the loop from its head to the next await or return
PaginatedLoop(c) ==
    IF MorePages(c)
    THEN WithRetry([c EXCEPT !.rowsToFetch = RowsToFetch(c)], RowsToFetch(c), c.startRow)
    ELSE Return(c, Result("value", Some(c.allRows), c.responseAggregationType, NoError))

\* the `if (rowLimit > MAX_ROWS_PER_REQUEST)` test of searchAnalytics
NeedsPagination(rowLimit) == rowLimit > MAX_ROWS_PER_REQUEST

\* searchAnalytics, up to its first await
SearchAnalytics(c, query) ==
    LET rowLimit == DestructureDefault(query.rowLimit, CLIENT_DEFAULT_ROW_LIMIT)
        startRow == DestructureDefault(query.startRow, 0)
    IN  IF NeedsPagination(rowLimit)
        THEN PaginatedLoop([c EXCEPT !.paginated = TRUE, !.allRows = <<>>,
                                     !.startRow = OrDefault(query.startRow, 0),
                                     !.totalRowsRequested =
                                         OrDefault(query.rowLimit, MAX_ROWS_PER_REQUEST),
                                     !.responseAggregationType = None])
        ELSE WithRetry(c, rowLimit, startRow)

\* a client operation is called
Invoke(op, query) ==
    LET c == [IdleClient EXCEPT !.op = op, !.query = query] IN
    IF op = "searchAnalytics" THEN SearchAnalytics(c, query) ELSE WithRetry(c, 0, 0)

\* mutant of PageArrived: a short page does not end the loop
PageArrivedKeepsAsking(c, response) ==
    IF ~IsSome(response.rows) \/ RowCount(Get(response.rows)) = 0
    THEN Return(c, Result("value", Some(c.allRows), c.responseAggregationType, NoError))
    ELSE PaginatedLoop([c EXCEPT !.allRows = @ \o Get(response.rows),
                                 !.responseAggregationType = response.agg,
                                 !.startRow = @ + c.rowsToFetch])

\* one page of searchAnalyticsPaginated has arrived
PageArrived(c, response) ==
    IF ~IsSome(response.rows) \/ RowCount(Get(response.rows)) = 0
    THEN Return(c, Result("value", Some(c.allRows), c.responseAggregationType, NoError))
    ELSE LET c2 == [c EXCEPT !.allRows = @ \o Get(response.rows),
                             !.responseAggregationType = response.agg]
         IN  IF RowCount(Get(response.rows)) < c.rowsToFetch
             THEN Return(c2, Result("value", Some(c2.allRows),
                                    c2.responseAggregationType, NoError))
             ELSE PaginatedLoop([c2 EXCEPT !.startRow = @ + c.rowsToFetch])

\* a field of response.data, undefined when the service did not send it
DataField(data, field) == IF field \in DOMAIN data THEN data[field] ELSE None

\* `sitemap.path || ''` over `response.data.sitemap || []`
SitemapPaths(sitemap) ==
    IF IsSome(sitemap)
    THEN [i \in 1..Len(Get(sitemap)) |-> DestructureDefault(Get(sitemap)[i], <<>>)]
    ELSE <<>>

\* what an operation other than searchAnalytics returns from response.data
OperationValue(op, data) ==
    IF op = "listSitemaps"
    THEN [ kind |-> "value", rows |-> None, agg |-> None, error |-> NoError,
           sitemaps |-> SitemapPaths(DataField(data, "sitemap")) ]
    ELSE IF op = "getSitemap"
    THEN [ kind |-> "value", rows |-> None, agg |-> None, error |-> NoError,
           path |-> DataField(data, "path") ]
    ELSE IF op = "inspectUrl"
    THEN [ kind |-> "value", rows |-> None, agg |-> None, error |-> NoError,
           inspectionResult |-> DataField(data, "inspectionResult") ]
    ELSE Result("value", None, None, NoError)

\* `return await operation()` succeeded: withRetry returns and the operation goes on
OnResponse(c, data) ==
    LET c1 == [c EXCEPT !.calls[Len(c.calls)].outcome = "ok"]
        response == Result("value", MapRows(data.rows), data.agg, NoError)
    IN  IF c.op = "searchAnalytics"
        THEN IF c.paginated THEN PageArrived(c1, response) ELSE Return(c1, response)
        ELSE Return(c1, OperationValue(c.op, data))

\* whether an operation turns a failure of withRetry into `null`
SwallowsError(op, error) == op \in {"getSite", "getSitemap"}

\* mutant of Throw: a paginated query that fails hands back the pages it has
ThrowKeepsPages(c, error) ==
    IF c.paginated
    THEN [c EXCEPT !.pc = "returned", !.thrown = Some(error),
                   !.result = Result("value", Some(c.allRows), c.responseAggregationType,
                                     NoError)]
    ELSE [c EXCEPT !.pc = "threw", !.thrown = Some(error),
                   !.result = Result("error", None, None, error)]

\* withRetry throws lastError: the operation's own handling of it
Throw(c, error) ==
    IF SwallowsError(c.op, error)
    THEN [c EXCEPT !.pc = "returned", !.thrown = Some(error),
                   !.result = Result("null", None, None, NoError)]
    ELSE [c EXCEPT !.pc = "threw", !.thrown = Some(error),
                   !.result = Result("error", None, None, error)]

\* mutant of Delay: the backoff grows linearly
DelayLinear(attempt) == RETRY_DELAY_MS * (attempt + 1)

\* the backoff before the next attempt
Delay(attempt) == RETRY_DELAY_MS * (2 ^ attempt)

\* mutant of GivesUp: every failure is retried until the attempts run out
GivesUpWhenExhausted(error, attempt) == attempt = MAX_RETRIES

\* mutant of GivesUp: one more attempt is made before giving up
GivesUpOneLater(error, attempt) == ~IsRetryableError(error) \/ attempt = MAX_RETRIES + 1

\* `!isRetryable || attempt === retries`
GivesUp(error, attempt) == ~IsRetryableError(error) \/ attempt = MAX_RETRIES

\* the catch block of withRetry
OnFailure(c, error) ==
    LET c1 == [c EXCEPT !.calls[Len(c.calls)].outcome = "error",
                        !.lastError = Some(error)]
    IN  IF GivesUp(error, c.attempt)
        THEN Throw(c1, Get(c1.lastError))
        ELSE [c1 EXCEPT !.pc = "sleeping", !.sleeps = Append(@, Delay(c.attempt))]

\* the sleep is over: the for loop increments attempt and calls operation() again
OnWake(c) == IssueCall([c EXCEPT !.attempt = @ + 1])

(***************************************************************************)
(* Dates: the built-in Date, for date-only ISO strings.  A Date is the     *)
(* number of days from 1970-01-01 to its UTC midnight.                     *)
(***************************************************************************)
\* new Date("YYYY-MM-DD"): the days from 1970-01-01 to that UTC date
DaysFromCivil(y, m, d) ==
    LET yy == IF m <= 2 THEN y - 1 ELSE y
        era == yy \div 400
        yoe == yy - era * 400
        mp == IF m > 2 THEN m - 3 ELSE m + 9
        doy == (153 * mp + 2) \div 5 + d - 1
        doe == yoe * 365 + yoe \div 4 - yoe \div 100 + doy
    IN  era * 146097 + doe - 719468

\* the calendar date of a day number
CivilFromDays(z) ==
    LET zz == z + 719468
        era == zz \div 146097
        doe == zz - era * 146097
        yoe == (doe - doe \div 1460 + doe \div 36524 - doe \div 146096) \div 365
        doy == doe - (365 * yoe + yoe \div 4 - yoe \div 100)
        mp == (5 * doy + 2) \div 153
        d == doy - (153 * mp + 2) \div 5 + 1
        m == IF mp < 10 THEN mp + 3 ELSE mp - 9
        y == yoe + era * 400 + (IF m <= 2 THEN 1 ELSE 0)
    IN  [y |-> y, m |-> m, d |-> d]

\* the local calendar day of the UTC midnight of day `utcDay`
LocalDay(utcDay, tz) == utcDay + (tz \div 1440)

\* Date.prototype.getDay on a local day: 0 is Sunday (1970-01-01 was a Thursday)
GetDay(localDay) == (localDay + 4) % 7

(***************************************************************************)
(* rollupByGranularity                                                     *)
(***************************************************************************)
RatAdd(a, b) ==
    IF a[2] = b[2] THEN <<a[1] + b[1], a[2]>> ELSE <<a[1] * b[2] + b[1] * a[2], a[2] * b[2]>>
RatScale(n, a) == <<n * a[1], a[2]>>

RECURSIVE Gcd(_, _)
Gcd(a, b) == IF b = 0 THEN a ELSE Gcd(b, a % b)

\* a / k in lowest terms, k > 0
RatDiv(a, k) ==
    LET g == Gcd(IF a[1] < 0 THEN -a[1] ELSE a[1], a[2] * k)
    IN  <<a[1] \div g, (a[2] * k) \div g>>

\* mutant of ActualGranularity: a span of exactly 21 days is rolled up weekly
ActualGranularityFrom21(granularity, startDate, endDate) ==
    IF granularity = "auto"
    THEN LET days == DaysFromCivil(endDate[1], endDate[2], endDate[3])
                     - DaysFromCivil(startDate[1], startDate[2], startDate[3])
         IN  IF days > 90 THEN "monthly" ELSE IF days >= 21 THEN "weekly" ELSE "none"
    ELSE granularity

\* the granularity used: "none" when `auto` keeps the rows as they are
ActualGranularity(granularity, startDate, endDate) ==
    IF granularity = "auto"
    THEN LET days == DaysFromCivil(endDate[1], endDate[2], endDate[3])
                     - DaysFromCivil(startDate[1], startDate[2], startDate[3])
         IN  IF days > 90 THEN "monthly" ELSE IF days > 21 THEN "weekly" ELSE "none"
    ELSE granularity

\* `const dateStr = row.keys?.[0]; if (!dateStr) continue;`
Skipped(row) ==
    \/ ~IsSome(row.keys)
    \/ Len(Get(row.keys)) = 0
    \/ (Get(row.keys)[1].kind = "text" /\ Get(row.keys)[1].text = "")

\* new Date(dateStr) is an Invalid Date
InvalidDate(key) == key.kind # "date"

\* the day whose ISO date is the weekly bucket key:
\* monday.setDate(date.getDate() - date.getDay() + 1), then toISOString()
WeekBucketDay(utcDay, tz) == utcDay - GetDay(LocalDay(utcDay, tz)) + 1

\* the bucket key of a row key
BucketKey(granularity, key, tz) ==
    IF InvalidDate(key)
    THEN TextKey("NaN-NaN")
    ELSE LET utcDay == DaysFromCivil(key.y, key.m, key.d) IN
         IF granularity = "monthly"
         THEN LET local == CivilFromDays(LocalDay(utcDay, tz)) IN MonthKey(local.y, local.m)
         ELSE LET monday == CivilFromDays(WeekBucketDay(utcDay, tz))
              IN  DateKey(monday.y, monday.m, monday.d)

\* monday.toISOString() throws a RangeError on an Invalid Date
RollupThrows(rows, granularity) ==
    /\ granularity = "weekly"
    /\ \E i \in 1..Len(rows) :
          ~Skipped(rows[i].row) /\ InvalidDate(Get(rows[i].row.keys)[1])

\* mutant of EmptyBucket: a new bucket starts with one click
EmptyBucketOneClick ==
    [clicks |-> 1, impressions |-> 0, positionSum |-> <<0, 1>>, positionCount |-> 0]

\* a bucket; `positions` is kept as the sum and the number of its entries
EmptyBucket == [clicks |-> 0, impressions |-> 0, positionSum |-> <<0, 1>>, positionCount |-> 0]

\* mutant of AddToBucket: the bucket keeps the clicks of its latest row only
AddToBucketLatestClicks(b, row, n) ==
    [ clicks |-> n * row.clicks,
      impressions |-> b.impressions + n * row.impressions,
      positionSum |-> IF b.positionCount = 0 THEN RatScale(n, row.position)
                      ELSE RatAdd(b.positionSum, RatScale(n, row.position)),
      positionCount |-> b.positionCount + n ]

\* bucket.clicks += ..., bucket.impressions += ..., bucket.positions.push(...)
AddToBucket(b, row, n) ==
    [ clicks |-> b.clicks + n * row.clicks,
      impressions |-> b.impressions + n * row.impressions,
      positionSum |-> IF b.positionCount = 0 THEN RatScale(n, row.position)
                      ELSE RatAdd(b.positionSum, RatScale(n, row.position)),
      positionCount |-> b.positionCount + n ]

\* the `for (const row of rows)` loop: the Map of buckets
Buckets(rows, granularity, tz) ==
    LET B[i \in 0..Len(rows)] ==
          IF i = 0 THEN <<>>
          ELSE IF Skipped(rows[i].row) THEN B[i - 1]
          ELSE LET key == BucketKey(granularity, Get(rows[i].row.keys)[1], tz)
                   old == IF key \in DOMAIN B[i - 1] THEN B[i - 1][key] ELSE EmptyBucket
               IN  [k \in (DOMAIN B[i - 1]) \cup {key} |->
                      IF k = key THEN AddToBucket(old, rows[i].row, rows[i].n)
                      ELSE B[i - 1][k]]
    IN  B[Len(rows)]

\* a.localeCompare(b) < 0 on the key strings: digits sort before letters
KeyLess(a, b) ==
    LET rank(k) == IF k.kind = "text" THEN 1 ELSE 0 IN
    \/ rank(a) < rank(b)
    \/ /\ rank(a) = 0 /\ rank(b) = 0
       /\ \/ a.y < b.y
          \/ a.y = b.y /\ a.m < b.m
          \/ a.y = b.y /\ a.m = b.m /\ a.d < b.d

\* rolledUpRows.sort(...): the order of the bucket keys
RECURSIVE SortKeys(_)
SortKeys(S) ==
    IF S = {} THEN <<>>
    ELSE LET first == CHOOSE k \in S : \A o \in S \ {k} : ~KeyLess(o, k)
         IN  <<first>> \o SortKeys(S \ {first})

\* one output row of the rollup
BucketRow(key, b) ==
    [ keys |-> Some(<<key>>),
      clicks |-> b.clicks,
      impressions |-> b.impressions,
      ctr |-> IF b.impressions > 0 THEN <<b.clicks, b.impressions>> ELSE <<0, 1>>,
      position |-> IF b.positionCount > 0 THEN RatDiv(b.positionSum, b.positionCount)
                   ELSE <<0, 1>> ]

\* `Array.from(buckets.entries()).map(...)`, in the order of the sort
RolledUpRows(buckets, order) ==
    [i \in 1..Len(order) |-> Block(1, BucketRow(order[i], buckets[order[i]]))]

\* mutant of SortedRows: the rows are put out latest bucket first
SortedRowsDescending(buckets) ==
    LET order == SortKeys(DOMAIN buckets)
    IN  RolledUpRows(buckets, [i \in 1..Len(order) |-> order[Len(order) + 1 - i]])

\* the output rows of the buckets, sorted by key
SortedRows(buckets) == RolledUpRows(buckets, SortKeys(DOMAIN buckets))

\* rollupByGranularity once the granularity is settled: [threw, rows]
RollupAs(rows, actual, tz) ==
    IF actual = "none" THEN [threw |-> FALSE, rows |-> rows]
    ELSE IF RollupThrows(rows, actual) THEN [threw |-> TRUE, rows |-> <<>>]
    ELSE [threw |-> FALSE, rows |-> SortedRows(Buckets(rows, actual, tz))]

\* rollupByGranularity: [threw, rows]
RollupByGranularity(rows, granularity, startDate, endDate, tz) ==
    RollupAs(rows, ActualGranularity(granularity, startDate, endDate), tz)

(***************************************************************************)
(* Tools: handleToolCall and handleSearchAnalyticsTool                     *)
(***************************************************************************)
\* failures raised inside the process
ErrValidation == Err(-1, <<"Z","o","d","E","r","r","o","r">>)
ErrCredentials == Err(-1, <<"N","o","t"," ","a","u","t","h","e","n","t","i","c","a","t","e","d">>)
ErrInvalidTime == Err(-1, <<"I","n","v","a","l","i","d"," ","t","i","m","e"," ","v","a","l","u","e">>)
ErrUnknownTool == Err(-1, <<"U","n","k","n","o","w","n"," ","t","o","o","l">>)

SearchAnalyticsToolNames == {"searchanalytics.query", "report.comparePeriods"}

\* the dimensions SearchAnalyticsQuerySchema accepts
Dimensions == {"query", "page", "country", "device", "searchAppearance", "date"}

\* the arguments of a tool call; dates holds startDate and endDate, and each
\* period its startDate and endDate
ToolArgs(siteUrl, rowLimit, startRow, dimensions, granularity, dates, period1, period2) ==
    [ siteUrl |-> siteUrl, rowLimit |-> rowLimit, startRow |-> startRow,
      dimensions |-> dimensions, granularity |-> granularity,
      dates |-> dates, period1 |-> period1, period2 |-> period2 ]

NoArgs == ToolArgs(None, None, None, None, None, None, None, None)

ToolResult(isError, error, body) == [isError |-> isError, error |-> error, body |-> body]
\* mutant of ErrorResult: the payload is not flagged as an error
ErrorResultUnflagged(error) == ToolResult(FALSE, error, [kind |-> "none"])

\* an error payload: `{ content: [{ type: 'text', text }], isError: true }`
ErrorResult(error) == ToolResult(TRUE, error, [kind |-> "none"])

\* credentialsOk, scope and today are the stored configuration and the clock
\* as the call finds them
IdleTool ==
    [ pc |-> "idle", name |-> "", args |-> NoArgs, credentialsOk |-> TRUE,
      scope |-> "readonly", today |-> 0, result |-> ErrorResult(NoError) ]

\* SearchAnalyticsQuerySchema.parse succeeds
SchemaAccepts(args) ==
    /\ IsSome(args.siteUrl)
    /\ IsSome(args.dates)
    /\ IsSome(args.rowLimit) => (Get(args.rowLimit) >= 1 /\ Get(args.rowLimit) <= 25000)
    /\ IsSome(args.startRow) => Get(args.startRow) >= 0
    /\ IsSome(args.dimensions) =>
          \A i \in 1..Len(Get(args.dimensions)) : Get(args.dimensions)[i] \in Dimensions

\* `(args.rowLimit as number) || DEFAULT_ROW_LIMIT`
QueryRowLimit(args) == OrDefault(args.rowLimit, DEFAULT_ROW_LIMIT)

\* dimensions?.includes('date')
IncludesDate(dimensions) ==
    IsSome(dimensions) /\ \E i \in 1..Len(Get(dimensions)) : Get(dimensions)[i] = "date"

\* rows?.reduce(...) of searchanalytics.query: clicks and impressions
QueryTotals(rows) ==
    IF ~IsSome(rows) THEN None
    ELSE LET T[i \in 0..Len(Get(rows))] ==
               IF i = 0 THEN [clicks |-> 0, impressions |-> 0]
               ELSE [ clicks |-> T[i - 1].clicks + Get(rows)[i].n * Get(rows)[i].row.clicks,
                      impressions |-> T[i - 1].impressions
                                      + Get(rows)[i].n * Get(rows)[i].row.impressions ]
         IN  Some(T[Len(Get(rows))])

\* `(args.granularity as Granularity) || 'daily'`
QueryGranularity(args) == IF IsSome(args.granularity) THEN Get(args.granularity) ELSE "daily"

\* `dimensions?.includes('date') && granularity !== 'daily' && rows`
Rolls(args, response) ==
    IncludesDate(args.dimensions) /\ QueryGranularity(args) # "daily" /\ IsSome(response.rows)

\* the payload of searchanalytics.query for the rows it reports
QueryBody(rows, agg) ==
    ToolResult(FALSE, NoError,
        [ kind |-> "query",
          rowCount |-> IF IsSome(rows) THEN RowCount(Get(rows)) ELSE 0,
          aggregationType |-> agg,
          totals |-> QueryTotals(rows),
          rows |-> rows ])

\* the payload after the rollup, or the error the rollup threw
QueryRolled(rolled, agg) ==
    IF rolled.threw THEN ErrorResult(ErrInvalidTime) ELSE QueryBody(Some(rolled.rows), agg)

\* searchanalytics.query after client.searchAnalytics has returned
QueryToolResult(args, response, tz) ==
    IF Rolls(args, response)
    THEN QueryRolled(RollupByGranularity(Get(response.rows), QueryGranularity(args),
                                         Get(args.dates)[1], Get(args.dates)[2], tz),
                     response.agg)
    ELSE QueryBody(response.rows, response.agg)

\* rows?.reduce(...) of report.comparePeriods
PeriodTotals(rows) ==
    IF ~IsSome(rows) THEN None
    ELSE LET T[i \in 0..Len(Get(rows))] ==
               IF i = 0
               THEN [clicks |-> 0, impressions |-> 0, position |-> <<0, 1>>, count |-> 0]
               ELSE LET b == Get(rows)[i] IN
                    [ clicks |-> T[i - 1].clicks + b.n * b.row.clicks,
                      impressions |-> T[i - 1].impressions + b.n * b.row.impressions,
                      position |-> RatAdd(T[i - 1].position, RatScale(b.n, b.row.position)),
                      count |-> T[i - 1].count + b.n ]
         IN  Some(T[Len(Get(rows))])

\* Math.round(num / den), den > 0: to the nearest integer, a tie upwards
MathRound(num, den) == (2 * num + den) \div (2 * den)

\* (num / den).toFixed(1), den > 0
ToFixed1(num, den) ==
    LET abs == IF num < 0 THEN -num ELSE num
        tenths == 10 * (abs \div den) + (20 * (abs % den) + den) \div (2 * den)
    IN  (IF num < 0 THEN "-" ELSE "") \o ToString(tenths \div 10) \o "." \o ToString(tenths % 10)

\* the percent change of a total: `t2 ? ((t1 - t2) / t2 * 100).toFixed(1) + '%' : 'N/A'`
PercentChange(t1, t2) ==
    IF t2 # 0 THEN ToFixed1((t1 - t2) * 100, t2) \o "%" ELSE "N/A"

\* formatPosition(a - b) in tenths: Math.round((a - b) * 10)
PositionDeltaTenths(a, b) == MathRound(10 * (a[1] * b[2] - b[1] * a[2]), a[2] * b[2])

\* whether the delta block is computed: `totals1 && totals2`
HasChanges(totals1, totals2) == IsSome(totals1) /\ IsSome(totals2)

\* the delta block of report.comparePeriods
Changes(totals1, totals2) ==
    IF HasChanges(totals1, totals2)
    THEN LET t1 == Get(totals1)
             t2 == Get(totals2)
         IN  Some([ clicks |-> t1.clicks - t2.clicks,
                    clicksPercent |-> PercentChange(t1.clicks, t2.clicks),
                    impressions |-> t1.impressions - t2.impressions,
                    impressionsPercent |-> PercentChange(t1.impressions, t2.impressions),
                    avgPosition |->
                        IF t1.count # 0 /\ t2.count # 0
                        THEN Some(PositionDeltaTenths(RatDiv(t1.position, t1.count),
                                                      RatDiv(t2.position, t2.count)))
                        ELSE None ])
    ELSE None

\* the payload of report.comparePeriods for the totals of the two periods
CompareBody(result1, result2, totals1, totals2) ==
    ToolResult(FALSE, NoError,
        [ kind |-> "compare",
          totals1 |-> totals1,
          totals2 |-> totals2,
          rowCount1 |-> IF IsSome(result1.rows) THEN RowCount(Get(result1.rows)) ELSE 0,
          rowCount2 |-> IF IsSome(result2.rows) THEN RowCount(Get(result2.rows)) ELSE 0,
          changes |-> Changes(totals1, totals2) ])

\* report.comparePeriods after both queries have returned
CompareToolResult(result1, result2) ==
    CompareBody(result1, result2, PeriodTotals(result1.rows), PeriodTotals(result2.rows))

(***************************************************************************)
(* Formatting helpers (formatters.ts).  A URL, and every key of a row of   *)
(* the opportunity tools, is a sequence of one-character strings.          *)
(***************************************************************************)
\* String.prototype.startsWith
StartsWith(s, p) == Len(p) <= Len(s) /\ \A i \in 1..Len(p) : s[i] = p[i]

\* url.slice(n) || '/'
SliceOrSlash(url, n) == IF n >= Len(url) THEN <<"/">> ELSE SubSeq(url, n + 1, Len(url))

ScDomainPrefix == <<"s","c","-","d","o","m","a","i","n",":">>
HttpsPrefix == <<"h","t","t","p","s",":","/","/">>
HttpPrefix == <<"h","t","t","p",":","/","/">>
WwwPrefix == <<"w","w","w",".">>

\* the four prefixes tried for a domain property, in the order of the code
DomainPrefixes(domain) ==
    << HttpsPrefix \o domain, HttpsPrefix \o WwwPrefix \o domain,
       HttpPrefix \o domain, HttpPrefix \o WwwPrefix \o domain >>

\* prefix.replace(/\/$/, '')
DropTrailingSlash(prefix) ==
    IF Len(prefix) > 0 /\ prefix[Len(prefix)] = "/"
    THEN SubSeq(prefix, 1, Len(prefix) - 1) ELSE prefix

\* stripUrlPrefix(url, siteUrl); siteUrl may be undefined
StripUrlPrefix(url, siteUrl) ==
    IF ~IsSome(siteUrl) \/ Len(Get(siteUrl)) = 0 \/ Len(url) = 0 THEN url
    ELSE IF StartsWith(Get(siteUrl), ScDomainPrefix)
    THEN LET prefixes == DomainPrefixes(SubSeq(Get(siteUrl), Len(ScDomainPrefix) + 1,
                                               Len(Get(siteUrl))))
         IN  IF \E k \in 1..4 : StartsWith(url, prefixes[k])
             THEN SliceOrSlash(url, Len(prefixes[CHOOSE k \in 1..4 :
                                   /\ StartsWith(url, prefixes[k])
                                   /\ \A j \in 1..(k - 1) : ~StartsWith(url, prefixes[j])]))
             ELSE url
    ELSE IF StartsWith(url, DropTrailingSlash(Get(siteUrl)))
    THEN SliceOrSlash(url, Len(DropTrailingSlash(Get(siteUrl))))
    ELSE url

\* (x).toFixed(2) for x = num / den, den > 0
ToFixed2(num, den) ==
    LET abs == IF num < 0 THEN -num ELSE num
        hundredths == 100 * (abs \div den) + (200 * (abs % den) + den) \div (2 * den)
        frac == hundredths % 100
    IN  (IF num < 0 /\ hundredths > 0 THEN "-" ELSE "") \o ToString(hundredths \div 100) \o "."
        \o (IF frac < 10 THEN "0" ELSE "") \o ToString(frac)

\* formatCtr: a percentage string when compact, else the ratio rounded to 4 places
FormatCtr(ctr, compact) ==
    IF compact THEN [text |-> ToFixed2(100 * ctr[1], ctr[2]) \o "%"]
    ELSE [tenThousandths |-> MathRound(10000 * ctr[1], ctr[2])]

\* formatPosition, in tenths: Math.round(position * 10) / 10
FormatPosition(position) == MathRound(10 * position[1], position[2])

\* `key.startsWith('http://') || key.startsWith('https://')`
LooksLikeUrl(key) ==
    key.kind = "text" /\ (StartsWith(key.text, HttpPrefix) \/ StartsWith(key.text, HttpsPrefix))

\* the keys of formatRow: `keys && siteUrl` maps the keys that look like URLs
StripKeys(keys, siteUrl) ==
    IF IsSome(keys) /\ IsSome(siteUrl) /\ Len(Get(siteUrl)) > 0
    THEN Some([ i \in 1..Len(Get(keys)) |->
                  IF LooksLikeUrl(Get(keys)[i])
                  THEN [Get(keys)[i] EXCEPT !.text = StripUrlPrefix(@, siteUrl)]
                  ELSE Get(keys)[i] ])
    ELSE keys

\* mutant of UsesScalarKey: the first key is emitted alone whenever there is one
UsesScalarKeyAlways(keys) == Len(keys) >= 1

\* `keys.length === 1`
UsesScalarKey(keys) == Len(keys) = 1

\* the metrics of a compact row
CompactMetrics(row) ==
    [ clicks |-> row.clicks, imp |-> row.impressions, ctr |-> FormatCtr(row.ctr, TRUE),
      pos |-> FormatPosition(row.position) ]

\* formatRow; format is None when the caller gives none
FormatRow(row, format, siteUrl) ==
    LET keys == StripKeys(row.keys, siteUrl) IN
    IF format = Some("compact")
    THEN IF IsSome(keys) /\ Len(Get(keys)) > 0
         THEN IF UsesScalarKey(Get(keys))
              THEN [key |-> Get(keys)[1]] @@ CompactMetrics(row)
              ELSE [keys |-> Get(keys)] @@ CompactMetrics(row)
         ELSE CompactMetrics(row)
    ELSE [ keys |-> keys, clicks |-> row.clicks, impressions |-> row.impressions,
           ctr |-> FormatCtr(row.ctr, FALSE), position |-> FormatPosition(row.position) ]

\* formatRows: rows is None when undefined
FormatRows(rows, format, siteUrl) ==
    IF ~IsSome(rows) THEN <<>>
    ELSE [i \in 1..Len(Get(rows)) |-> FormatRow(Get(rows)[i], format, siteUrl)]

(***************************************************************************)
(* Array helpers                                                           *)
(***************************************************************************)
\* rows.length up to and including each block
RowsThrough(blocks) ==
    LET Cnt[i \in 0..Len(blocks)] == IF i = 0 THEN 0 ELSE Cnt[i - 1] + blocks[i].n
    IN  [i \in 0..Len(blocks) |-> Cnt[i]]

\* the array a block sequence stands for, given its running row counts
ExpandBy(blocks, through) ==
    [ k \in 1..through[Len(blocks)] |->
        blocks[CHOOSE i \in 1..Len(blocks) : through[i - 1] < k /\ k <= through[i]].row ]

\* the array a block sequence stands for
Expand(blocks) == ExpandBy(blocks, RowsThrough(blocks))

\* `response.rows || []`, as an array
RowsOrEmpty(rows) == IF IsSome(rows) THEN Expand(Get(rows)) ELSE <<>>

\* Array.prototype.sort((a, b) => key(a) - key(b)) over entries [key, val],
\* key a fraction <<num, den>>
KeyBefore(x, y) == x.key[1] * y.key[2] < y.key[1] * x.key[2]

\* the place of entry i after the sort, which is stable: behind the entries
\* of smaller key and the earlier entries of equal key
SortedIndex(seq, i) ==
    1 + Cardinality({ j \in 1..Len(seq) :
                        \/ KeyBefore(seq[j], seq[i])
                        \/ j < i /\ ~KeyBefore(seq[i], seq[j]) })

\* the entries placed by their sorted indices
PlaceBy(seq, index) ==
    [ r \in 1..Len(seq) |-> seq[CHOOSE i \in 1..Len(seq) : index[i] = r] ]

StableSort(seq) == PlaceBy(seq, [i \in 1..Len(seq) |-> SortedIndex(seq, i)])

\* the sorted values
Values(entries) == [i \in 1..Len(entries) |-> entries[i].val]

\* Array.prototype.slice(0, limit)
SliceTo(seq, limit) ==
    IF limit >= 0 THEN SubSeq(seq, 1, Min(limit, Len(seq)))
    ELSE SubSeq(seq, 1, Len(seq) + limit)

\* `row.keys?.[i] || ''` (i from 1)
KeyOrEmpty(row, i) ==
    IF IsSome(row.keys) /\ Len(Get(row.keys)) >= i THEN Get(row.keys)[i].text ELSE <<>>

\* an argument of the bag, undefined when the caller did not pass it
Arg(args, field) == IF field \in DOMAIN args THEN args[field] ELSE None

\* `(args.format as 'full' | 'compact') || 'full'` is 'compact'
Compact(args) == Arg(args, "format") = Some("compact")

\* the default date range of the opportunity tools: the last 28 days
DefaultDateRange(today) == <<CivilFromDays(today - 28), CivilFromDays(today)>>

\* startDate and endDate after the destructuring defaults
DateRange(args, today) == DestructureDefault(args.dates, DefaultDateRange(today))

RatLess(a, b) == a[1] * b[2] < b[1] * a[2]

(***************************************************************************)
(* opportunities.lowCtrHighPos                                             *)
(***************************************************************************)
\* the arguments after the destructuring defaults
LowCtrParams(args) ==
    [ minImpressions |-> DestructureDefault(Arg(args, "minImpressions"), 100),
      maxCtr |-> DestructureDefault(Arg(args, "maxCtr"), <<3, 100>>),
      minPosition |-> DestructureDefault(Arg(args, "minPosition"), <<4, 1>>),
      maxPosition |-> DestructureDefault(Arg(args, "maxPosition"), <<20, 1>>),
      limit |-> DestructureDefault(Arg(args, "limit"), DEFAULT_ROW_LIMIT) ]

\* the filter of lowCtrHighPos
IsOpportunity(row, p) ==
    /\ row.impressions >= p.minImpressions
    /\ RatLess(row.ctr, p.maxCtr)
    /\ ~RatLess(row.position, p.minPosition)
    /\ ~RatLess(p.maxPosition, row.position)

\* Array.prototype.filter with the filter of lowCtrHighPos
FilterOpportunities(rows, p) == SelectSeq(rows, LAMBDA row : IsOpportunity(row, p))

\* mutant of PotentialClicks: the clicks already won are not subtracted
PotentialClicksGross(row) == MathRound(row.impressions, 20)

\* Math.round(row.impressions * 0.05 - row.clicks)
PotentialClicks(row) == MathRound(row.impressions - 20 * row.clicks, 20)

\* the object lowCtrHighPos maps a row to
Opportunity(row, siteUrl, compact) ==
    IF compact
    THEN [ q |-> KeyOrEmpty(row, 1), page |-> StripUrlPrefix(KeyOrEmpty(row, 2), siteUrl),
           clicks |-> row.clicks, imp |-> row.impressions,
           ctr |-> FormatCtr(row.ctr, TRUE), pos |-> FormatPosition(row.position),
           potential |-> PotentialClicks(row) ]
    ELSE [ query |-> KeyOrEmpty(row, 1), page |-> StripUrlPrefix(KeyOrEmpty(row, 2), siteUrl),
           clicks |-> row.clicks, impressions |-> row.impressions,
           ctr |-> FormatCtr(row.ctr, FALSE), position |-> FormatPosition(row.position),
           potentialClicks |-> PotentialClicks(row) ]

\* `o.potential ?? o.potentialClicks`
Potential(o) == IF "potential" \in DOMAIN o THEN o.potential ELSE o.potentialClicks

\* the sort key of `.sort((a, b) => potential(b) - potential(a))`
ByPotentialDesc(rows, siteUrl, compact) ==
    [ i \in 1..Len(rows) |->
        [ key |-> <<-PotentialClicks(rows[i]), 1>>,
          val |-> Opportunity(rows[i], siteUrl, compact) ] ]

\* opportunities.reduce((sum, o) => sum + potential(o), 0)
TotalPotential(opportunities) ==
    LET T[i \in 0..Len(opportunities)] ==
          IF i = 0 THEN 0 ELSE T[i - 1] + Potential(opportunities[i])
    IN  T[Len(opportunities)]

\* the filtered, mapped, sorted and sliced rows
Opportunities(rows, p, siteUrl, compact) ==
    SliceTo(Values(StableSort(ByPotentialDesc(FilterOpportunities(rows, p), siteUrl, compact))),
            p.limit)

\* the summary of lowCtrHighPos
LowCtrSummary(opportunities, p, range, compact) ==
    IF compact
    THEN [ text |-> "Found " \o ToString(Len(opportunities)) \o " quick wins with "
                    \o ToString(TotalPotential(opportunities)) \o " potential clicks" ]
    ELSE [ opportunitiesFound |-> Len(opportunities),
           totalPotentialClicks |-> TotalPotential(opportunities),
           criteria |-> [ minImpressions |-> p.minImpressions,
                          maxCtr |-> ToFixed1(100 * p.maxCtr[1], p.maxCtr[2]) \o "%",
                          positionRange |-> <<p.minPosition, p.maxPosition>> ],
           dateRange |-> range ]

\* the payload of lowCtrHighPos for the opportunities it reports
LowCtrBody(opportunities, p, range, compact) ==
    ToolResult(FALSE, NoError,
        [ kind |-> "lowCtrHighPos",
          summary |-> LowCtrSummary(opportunities, p, range, compact),
          opportunities |-> opportunities ])

\* opportunities.lowCtrHighPos after client.searchAnalytics has returned
LowCtrHighPos(args, response, today) ==
    LowCtrBody(Opportunities(RowsOrEmpty(response.rows), LowCtrParams(args),
                             args.siteUrl, Compact(args)),
               LowCtrParams(args), DateRange(args, today), Compact(args))

(***************************************************************************)
(* opportunities.cannibalization                                           *)
(***************************************************************************)
\* the arguments after the destructuring defaults
CannibalizationParams(args) ==
    [ minImpressions |-> DestructureDefault(Arg(args, "minImpressions"), 50),
      limit |-> DestructureDefault(Arg(args, "limit"), DEFAULT_ROW_LIMIT) ]

\* row i is the first row of its query: queryMap.has(query) is false
OpensGroup(rows, i) ==
    \A j \in 1..(i - 1) : KeyOrEmpty(rows[j], 1) # KeyOrEmpty(rows[i], 1)

\* the keys of queryMap, in insertion order
QueryMapKeys(rows) ==
    LET firsts == SelectSeq([i \in 1..Len(rows) |-> i], LAMBDA i : OpensGroup(rows, i))
    IN  [k \in 1..Len(firsts) |-> KeyOrEmpty(rows[firsts[k]], 1)]

\* the entry pushed for a row
PageEntry(row) ==
    [ page |-> KeyOrEmpty(row, 2), clicks |-> row.clicks, impressions |-> row.impressions,
      ctr |-> row.ctr, position |-> row.position ]

\* queryMap.get(query): the entries pushed for the query, in row order
QueryMapGet(rows, query) ==
    LET group == SelectSeq(rows, LAMBDA row : KeyOrEmpty(row, 1) = query)
    IN  [k \in 1..Len(group) |-> PageEntry(group[k])]

\* pages.reduce((sum, p) => sum + p.impressions, 0)
TotalImpressions(pages) ==
    LET T[i \in 0..Len(pages)] == IF i = 0 THEN 0 ELSE T[i - 1] + pages[i].impressions
    IN  T[Len(pages)]

\* mutant of CompetingPages: a single page already counts as competition
CompetingPagesFromOne(pages) == Len(pages) >= 1

\* the negation of `pages.length < 2`
CompetingPages(pages) == Len(pages) >= 2

\* a group that is reported: neither `continue` is taken
IsIssue(pages, p) == CompetingPages(pages) /\ TotalImpressions(pages) >= p.minImpressions

\* pages.sort((a, b) => a.position - b.position)
SortByPosition(pages) ==
    Values(StableSort([i \in 1..Len(pages) |-> [key |-> pages[i].position, val |-> pages[i]]]))

ConsolidatePrefix ==
    << "C","o","n","s","i","d","e","r"," ","c","o","n","s","o","l","i","d","a","t","i","n",
       "g"," ","c","o","n","t","e","n","t"," ","i","n","t","o"," " >>
ConsolidateSuffix ==
    << " ","a","n","d"," ","r","e","d","i","r","e","c","t","i","n","g"," ","o","t","h","e",
       "r"," ","p","a","g","e","s","." >>
CompetingMenu ==
    << "M","u","l","t","i","p","l","e"," ","p","a","g","e","s"," ","c","o","m","p","e","t",
       "i","n","g","."," ","C","o","n","s","i","d","e","r",":"," ","1",")"," ","C","o","n",
       "s","o","l","i","d","a","t","e"," ","i","n","t","o"," ","o","n","e"," ","a","u","t",
       "h","o","r","i","t","a","t","i","v","e"," ","p","a","g","e",","," ","2",")"," ","D",
       "i","f","f","e","r","e","n","t","i","a","t","e"," ","c","o","n","t","e","n","t"," ",
       "f","o","c","u","s",","," ","o","r"," ","3",")"," ","U","s","e"," ","c","a","n","o",
       "n","i","c","a","l"," ","t","a","g","s","." >>

\* mutant of BestIsStrong: the threshold is put on the worst page of the group
WorstIsStrong(sorted) == RatLess(sorted[Len(sorted)].position, <<5, 1>>)

\* `bestPage.position < 5` for bestPage = pages[0] of the sorted pages
BestIsStrong(sorted) == RatLess(sorted[1].position, <<5, 1>>)

\* the recommendation of an issue, from its pages sorted by position
Recommendation(sorted, siteUrl) ==
    IF BestIsStrong(sorted)
    THEN ConsolidatePrefix \o StripUrlPrefix(sorted[1].page, siteUrl) \o ConsolidateSuffix
    ELSE CompetingMenu

\* a page of an issue, formatted, without its undefined fields
FormattedPage(p, siteUrl, compact) ==
    IF compact
    THEN [ page |-> StripUrlPrefix(p.page, siteUrl), clicks |-> p.clicks,
           imp |-> p.impressions, ctr |-> FormatCtr(p.ctr, TRUE),
           position |-> FormatPosition(p.position) ]
    ELSE [ page |-> StripUrlPrefix(p.page, siteUrl), clicks |-> p.clicks,
           impressions |-> p.impressions, ctr |-> FormatCtr(p.ctr, FALSE),
           position |-> FormatPosition(p.position) ]

\* the issue pushed for a group, from its pages sorted by position
Issue(query, sorted, siteUrl, compact) ==
    [ query |-> query,
      pages |-> [i \in 1..Len(sorted) |-> FormattedPage(sorted[i], siteUrl, compact)],
      totalImpressions |-> TotalImpressions(sorted),
      recommendation |-> Recommendation(sorted, siteUrl) ]

\* the loop over queryMap: the issues in the order they are pushed
Issues(rows, queries, p, siteUrl, compact) ==
    LET kept == SelectSeq(queries, LAMBDA query : IsIssue(QueryMapGet(rows, query), p))
    IN  [ k \in 1..Len(kept) |->
            Issue(kept[k], SortByPosition(QueryMapGet(rows, kept[k])), siteUrl, compact) ]

\* issues.sort((a, b) => b.totalImpressions - a.totalImpressions).slice(0, limit)
TopIssues(issues, limit) ==
    SliceTo(Values(StableSort([i \in 1..Len(issues) |->
                        [key |-> <<-issues[i].totalImpressions, 1>>, val |-> issues[i]]])),
            limit)

\* the summary of cannibalization
CannibalizationSummary(topIssues, queryCount, range, compact) ==
    IF compact
    THEN [ text |-> "Found " \o ToString(Len(topIssues)) \o " cannibalization issues from "
                    \o ToString(queryCount) \o " queries" ]
    ELSE [ issuesFound |-> Len(topIssues), totalQueriesAnalyzed |-> queryCount,
           dateRange |-> range ]

\* the payload of cannibalization for the issues it reports
CannibalizationBody(topIssues, queryCount, range, compact) ==
    ToolResult(FALSE, NoError,
        [ kind |-> "cannibalization",
          summary |-> CannibalizationSummary(topIssues, queryCount, range, compact),
          issues |-> topIssues ])

\* the issues of a response's rows, sorted and sliced
CannibalizationIssues(rows, p, siteUrl, compact) ==
    TopIssues(Issues(rows, QueryMapKeys(rows), p, siteUrl, compact), p.limit)

\* opportunities.cannibalization after client.searchAnalytics has returned
Cannibalization(args, response, today) ==
    CannibalizationBody(
        CannibalizationIssues(RowsOrEmpty(response.rows), CannibalizationParams(args),
                              args.siteUrl, Compact(args)),
        Len(QueryMapKeys(RowsOrEmpty(response.rows))),
        DateRange(args, today), Compact(args))

(***************************************************************************)
(* export.csv and export.json (export.ts)                                  *)
(***************************************************************************)
\* `dimensions = ['query']`
ExportDimensions(args) == DestructureDefault(args.dimensions, <<"query">>)

\* `rowLimit = 1000`
ExportRowLimit(args) == DestructureDefault(args.rowLimit, EXPORT_DEFAULT_ROW_LIMIT)

\* value.replace(/"/g, '""')
RECURSIVE DoubleQuotes(_)
DoubleQuotes(value) ==
    IF Len(value) = 0 THEN <<>>
    ELSE (IF Head(value) = "\"" THEN <<"\"", "\"">> ELSE <<Head(value)>>)
         \o DoubleQuotes(Tail(value))

\* escapeCSVValue
EscapeCSVValue(value) ==
    IF \E i \in 1..Len(value) : value[i] \in {",", "\"", "\n"}
    THEN <<"\"">> \o DoubleQuotes(value) \o <<"\"">>
    ELSE value

\* the values of one line of the CSV
CSVLine(row, dimensions) ==
    [ keys |-> [i \in 1..Len(dimensions) |-> EscapeCSVValue(KeyOrEmpty(row, i))],
      clicks |-> ToString(row.clicks), impressions |-> ToString(row.impressions),
      ctr |-> ToFixed2(100 * row.ctr[1], row.ctr[2]) \o "%",
      position |-> ToFixed1(row.position[1], row.position[2]) ]

\* convertToCSV: the header and the lines, a block of equal rows giving a block
\* of equal lines
ConvertToCSV(blocks, dimensions) ==
    [ header |-> dimensions \o <<"clicks", "impressions", "ctr", "position">>,
      lines |-> [i \in 1..Len(blocks) |->
                    Block(blocks[i].n, CSVLine(blocks[i].row, dimensions))] ]

\* the object export.json maps a row to
ExportObject(row, dimensions) ==
    [ dims |-> [i \in 1..Len(dimensions) |-> KeyOrEmpty(row, i)],
      clicks |-> row.clicks, impressions |-> row.impressions,
      ctr |-> row.ctr, position |-> row.position ]

\* `response.rows || []`, as blocks
BlocksOrEmpty(rows) == IF IsSome(rows) THEN Get(rows) ELSE <<>>

\* handleExportTool after client.searchAnalytics has returned
ExportToolResult(name, args, response) ==
    IF name = "export.csv"
    THEN ToolResult(FALSE, NoError,
             [ kind |-> "csv",
               csv |-> ConvertToCSV(BlocksOrEmpty(response.rows), ExportDimensions(args)) ])
    ELSE ToolResult(FALSE, NoError,
             [ kind |-> "json",
               metadata |-> [ siteUrl |-> args.siteUrl, dates |-> args.dates,
                              dimensions |-> ExportDimensions(args),
                              rowCount |-> RowCount(BlocksOrEmpty(response.rows)) ],
               data |-> [i \in 1..Len(BlocksOrEmpty(response.rows)) |->
                            Block(BlocksOrEmpty(response.rows)[i].n,
                                  ExportObject(BlocksOrEmpty(response.rows)[i].row,
                                               ExportDimensions(args)))] ])

(***************************************************************************)
(* Scope (oauth.ts)                                                        *)
(***************************************************************************)
Scopes == {"readonly", "full"}

\* mutant of HasScope: every configured scope passes the check
HasScopeAlways(requiredScope, scope) == TRUE

\* hasScope(requiredScope) under the configured scope
HasScope(requiredScope, scope) ==
    IF requiredScope = "readonly" THEN TRUE ELSE scope = "full"

\* getScopeUpgradeMessage(feature): the pieces of the message, in order
GetScopeUpgradeMessage(feature) ==
    << "The \"", feature,
       "\" feature requires full scope access.\nTo upgrade, run: gsc-mcp init --scope full" >>

\* the error payload of a failed scope check
ScopeUpgradeResult(feature) == ErrorResult(Err(-1, GetScopeUpgradeMessage(feature)))

(***************************************************************************)
(* Sitemap tools (sitemaps.ts)                                             *)
(***************************************************************************)
SitemapToolNames == {"sitemaps.list", "sitemaps.get", "sitemaps.submit", "sitemaps.delete"}

\* the tools whose handler checks hasScope('full')
FullScopeToolNames ==
    {"sitemaps.submit", "sitemaps.delete", "urlInspection.inspect", "urlInspection.batchInspect"}

\* the client operation a sitemap tool calls
SitemapOperation(name) ==
    CASE name = "sitemaps.list" -> "listSitemaps"
      [] name = "sitemaps.get" -> "getSitemap"
      [] name = "sitemaps.submit" -> "submitSitemap"
      [] name = "sitemaps.delete" -> "deleteSitemap"

ErrSitemapNotFound == Err(-1, <<"Sitemap not found">>)

\* handleSitemapTool after its client operation has returned
SitemapToolResult(name, args, value) ==
    IF name = "sitemaps.list"
    THEN ToolResult(FALSE, NoError,
             [ kind |-> "sitemaps", siteUrl |-> args.siteUrl,
               sitemapCount |-> Len(value.sitemaps), sitemaps |-> value.sitemaps ])
    ELSE IF name = "sitemaps.get"
    THEN IF value.kind = "null" THEN ErrorResult(ErrSitemapNotFound)
         ELSE ToolResult(FALSE, NoError,
                  [ kind |-> "sitemap",
                    path |-> IF IsSome(value.path) /\ Len(Get(value.path)) > 0
                             THEN value.path ELSE Arg(args, "feedpath") ])
    ELSE ToolResult(FALSE, NoError,
             [ kind |-> name, success |-> TRUE, siteUrl |-> args.siteUrl,
               feedpath |-> Arg(args, "feedpath") ])

(***************************************************************************)
(* URL inspection tools (urlInspection.ts)                                 *)
(***************************************************************************)
UrlInspectionToolNames == {"urlInspection.inspect", "urlInspection.batchInspect"}

\* the most URLs a batch may hold
MAX_BATCH_URLS == 10

ErrTooManyUrls == Err(-1, <<"Maximum 10 URLs allowed per batch inspection">>)

\* `urls.length` of an undefined urls
ErrNoLength == Err(-1, <<"Cannot read properties of undefined (reading 'length')">>)

\* formatInspectionResult: the index status and the canonical match; the
\* mobile usability and rich results parts are copied alike
FormatInspectionResult(result, url) ==
    LET ir == result.inspectionResult
        status == IF IsSome(ir) THEN Get(ir).indexStatusResult ELSE None
    IN  [ url |-> url,
          indexStatus |-> IF IsSome(status) THEN Some([verdict |-> Get(status).verdict])
                          ELSE None,
          canonical |-> IF IsSome(status)
                        THEN Some([match |-> Get(status).googleCanonical
                                             = Get(status).userCanonical])
                        ELSE None ]

\* mutant of BatchEntry: a rejected inspection is dropped from the results
BatchEntryFulfilledOnly(settled, url) ==
    IF settled.pc = "returned" THEN <<FormatInspectionResult(settled.result, url)>> ELSE <<>>

\* the entry of results.map for one settled inspection
BatchEntry(settled, url) ==
    IF settled.pc = "returned"
    THEN <<FormatInspectionResult(settled.result, url)>>
    ELSE <<[url |-> url, error |-> settled.result.error.message]>>

\* results.map(...)
RECURSIVE BatchEntries(_, _, _)
BatchEntries(cl, urls, i) ==
    IF i > Len(urls) THEN <<>>
    ELSE BatchEntry(cl[i], urls[i]) \o BatchEntries(cl, urls, i + 1)

\* formatted.filter(r => 'indexStatus' in r && r.indexStatus?.verdict === 'PASS').length
IndexedCount(formatted) ==
    Cardinality({ i \in 1..Len(formatted) :
                    /\ "indexStatus" \in DOMAIN formatted[i]
                    /\ IsSome(formatted[i].indexStatus)
                    /\ Get(formatted[i].indexStatus).verdict = Some("PASS") })

\* the payload of batchInspect for its formatted results
BatchBody(formatted, urls) ==
    ToolResult(FALSE, NoError,
        [ kind |-> "batchInspect",
          summary |-> [ total |-> Len(urls), indexed |-> IndexedCount(formatted),
                        notIndexed |-> Len(urls) - IndexedCount(formatted) ],
          results |-> formatted ])

\* batchInspect once Promise.allSettled has resolved
BatchToolResult(cl, urls) == BatchBody(BatchEntries(cl, urls, 1), urls)

OpportunityToolNames == {"opportunities.lowCtrHighPos", "opportunities.cannibalization"}

ExportToolNames == {"export.csv", "export.json"}

\* the tools handleToolCall routes; report.weeklySummary is not modelled
ToolNames ==
    SearchAnalyticsToolNames \cup SitemapToolNames \cup UrlInspectionToolNames
    \cup OpportunityToolNames \cup ExportToolNames

Done(t, result) == [t EXCEPT !.pc = "done", !.result = result]

\* a handler returns without awaiting the remote service
Returned(t, idle, result) == [tool |-> Done(t, result), client |-> idle]

\* a handler awaits one client operation
Awaiting(t, idle, op, query) ==
    [tool |-> t, client |-> [idle EXCEPT ![1] = Invoke(op, query)]]

\* handleSitemapTool up to its first await on the remote service
HandleSitemapTool(t, idle, credentialsOk, scope) ==
    IF ~credentialsOk THEN Returned(t, idle, ErrorResult(ErrCredentials))
    ELSE IF t.name \in {"sitemaps.submit", "sitemaps.delete"} /\ ~HasScope("full", scope)
    THEN Returned(t, idle, ScopeUpgradeResult(t.name))
    ELSE Awaiting(t, idle, SitemapOperation(t.name), NoQuery)

\* urls.map(url => client.inspectUrl(siteUrl, url)): one call per URL
InspectAll(idle, urls) ==
    [s \in Slots |-> IF s <= Len(urls) THEN Invoke("inspectUrl", NoQuery) ELSE idle[s]]

\* urlInspection.batchInspect from the read of args.urls
HandleBatchInspect(t, idle, urls) ==
    IF ~IsSome(urls) THEN Returned(t, idle, ErrorResult(ErrNoLength))
    ELSE IF Len(Get(urls)) > MAX_BATCH_URLS THEN Returned(t, idle, ErrorResult(ErrTooManyUrls))
    ELSE IF Len(Get(urls)) = 0 THEN Returned(t, idle, BatchToolResult(idle, Get(urls)))
    ELSE [tool |-> t, client |-> InspectAll(idle, Get(urls))]

\* handleUrlInspectionTool up to its first await on the remote service
HandleUrlInspectionTool(t, idle, credentialsOk, scope) ==
    IF ~HasScope("full", scope) THEN Returned(t, idle, ScopeUpgradeResult(t.name))
    ELSE IF ~credentialsOk THEN Returned(t, idle, ErrorResult(ErrCredentials))
    ELSE IF t.name = "urlInspection.inspect" THEN Awaiting(t, idle, "inspectUrl", NoQuery)
    ELSE HandleBatchInspect(t, idle, Arg(t.args, "urls"))

\* the row limit an opportunity tool asks the client for
OpportunityRowLimit(name) == IF name = "opportunities.lowCtrHighPos" THEN 10000 ELSE 25000

\* handleOpportunityTool up to its first await on the remote service
HandleOpportunityTool(t, idle, credentialsOk) ==
    IF ~credentialsOk THEN Returned(t, idle, ErrorResult(ErrCredentials))
    ELSE Awaiting(t, idle, "searchAnalytics",
                  Query(Some(OpportunityRowLimit(t.name)), None, Some(<<"query", "page">>),
                        DateRange(t.args, t.today)[1], DateRange(t.args, t.today)[2]))

\* handleExportTool up to its first await on the remote service
HandleExportTool(t, idle, credentialsOk) ==
    IF ~credentialsOk THEN Returned(t, idle, ErrorResult(ErrCredentials))
    ELSE Awaiting(t, idle, "searchAnalytics",
                  Query(Some(ExportRowLimit(t.args)), None, Some(ExportDimensions(t.args)),
                        Get(t.args.dates)[1], Get(t.args.dates)[2]))

\* handleSearchAnalyticsTool up to its first await on the remote service
HandleSearchAnalyticsTool(t, idle, credentialsOk) ==
    IF ~credentialsOk THEN Returned(t, idle, ErrorResult(ErrCredentials))
    ELSE IF t.name = "searchanalytics.query"
    THEN LET parsed == [t.args EXCEPT !.rowLimit = Some(QueryRowLimit(t.args))] IN
         IF ~SchemaAccepts(parsed)
         THEN Returned(t, idle, ErrorResult(ErrValidation))
         ELSE Awaiting(t, idle, "searchAnalytics",
                       Query(parsed.rowLimit, parsed.startRow, parsed.dimensions,
                             Get(parsed.dates)[1], Get(parsed.dates)[2]))
    ELSE LET rowLimit == Some(DestructureDefault(t.args.rowLimit, DEFAULT_ROW_LIMIT)) IN
         [ tool |-> t,
           client |-> [s \in Slots |->
               Invoke("searchAnalytics",
                      Query(rowLimit, None, t.args.dimensions,
                            Get(IF s = 1 THEN t.args.period1 ELSE t.args.period2)[1],
                            Get(IF s = 1 THEN t.args.period1 ELSE t.args.period2)[2]))] ]

\* the routing of handleToolCall, with its catch of what a handler throws
Route(t, idle, credentialsOk, scope) ==
    IF t.name \in SearchAnalyticsToolNames THEN HandleSearchAnalyticsTool(t, idle, credentialsOk)
    ELSE IF t.name \in SitemapToolNames THEN HandleSitemapTool(t, idle, credentialsOk, scope)
    ELSE IF t.name \in UrlInspectionToolNames
    THEN HandleUrlInspectionTool(t, idle, credentialsOk, scope)
    ELSE IF t.name \in OpportunityToolNames THEN HandleOpportunityTool(t, idle, credentialsOk)
    ELSE IF t.name \in ExportToolNames THEN HandleExportTool(t, idle, credentialsOk)
    ELSE Returned(t, idle, ErrorResult(ErrUnknownTool))

\* handleToolCall from its call to the first await on the remote service, or
\* to its return: [tool, client]
HandleToolCall(name, args0, defaultProperty, credentialsOk, scope, today) ==
    Route([ pc |-> "awaiting", name |-> name,
            args |-> IF IsSome(defaultProperty) /\ ~IsSome(args0.siteUrl)
                     THEN [args0 EXCEPT !.siteUrl = defaultProperty] ELSE args0,
            credentialsOk |-> credentialsOk, scope |-> scope, today |-> today,
            result |-> ErrorResult(NoError) ],
          [s \in Slots |-> IdleClient], credentialsOk, scope)

\* a handler's continuation once the one client call it awaits has settled
SettleOne(t, settled, tz) ==
    IF settled.pc = "threw" THEN Done(t, ErrorResult(settled.result.error))
    ELSE IF settled.pc # "returned" THEN t
    ELSE IF t.name = "searchanalytics.query"
    THEN Done(t, QueryToolResult(t.args, settled.result, tz))
    ELSE IF t.name \in SitemapToolNames
    THEN Done(t, SitemapToolResult(t.name, t.args, settled.result))
    ELSE IF t.name = "urlInspection.inspect"
    THEN Done(t, ToolResult(FALSE, NoError,
                     [ kind |-> "inspect",
                       formatted |-> FormatInspectionResult(settled.result,
                                                            Arg(t.args, "inspectionUrl")) ]))
    ELSE IF t.name = "opportunities.lowCtrHighPos"
    THEN Done(t, LowCtrHighPos(t.args, settled.result, t.today))
    ELSE IF t.name = "opportunities.cannibalization"
    THEN Done(t, Cannibalization(t.args, settled.result, t.today))
    ELSE Done(t, ExportToolResult(t.name, t.args, settled.result))

\* Promise.allSettled of batchInspect has resolved
AllSettled(cl, urls) == \A i \in 1..Len(urls) : cl[i].pc \in {"returned", "threw"}

\* the handler's continuation once the client calls it awaits have settled
ToolSettle(t, cl, tz) ==
    IF t.pc # "awaiting" THEN t
    ELSE IF t.name = "report.comparePeriods"
    THEN IF \E s \in Slots : cl[s].pc = "threw"
         THEN Done(t, ErrorResult(cl[CHOOSE s \in Slots : cl[s].pc = "threw"].result.error))
         ELSE IF \A s \in Slots : cl[s].pc = "returned"
         THEN Done(t, CompareToolResult(cl[1].result, cl[2].result))
         ELSE t
    ELSE IF t.name = "urlInspection.batchInspect"
    THEN IF AllSettled(cl, Get(Arg(t.args, "urls")))
         THEN Done(t, BatchToolResult(cl, Get(Arg(t.args, "urls"))))
         ELSE t
    ELSE SettleOne(t, cl[1], tz)

(***************************************************************************)
(* The components that no tool call touches                                *)
(***************************************************************************)
\* no formatting function has been applied
IdleFormatter ==
    [ pc |-> "idle", fn |-> "", url |-> <<>>, siteUrl |-> None, rows |-> None,
      format |-> None, out |-> <<>> ]

\* `60 * 60 * 1000`, one hour
DEFAULT_TTL_MS == 3600000

\* the query_cache table of a new database at time 0: `now` is Date.now(),
\* returned what the latest operation returned, and log the operations called
\* so far, written by the actions only
EmptyCache ==
    [ entries |-> {}, now |-> 0, ttl |-> DEFAULT_TTL_MS, returned |-> None, log |-> <<>> ]

\* JSON.stringify of an object: its properties in the order they were added;
\* an object is the sequence of its <<name, value>> pairs
Stringify(object) ==
    <<"{">> \o [i \in 1..(2 * Len(object)) |-> object[(i + 1) \div 2][2 - (i % 2)]] \o <<"}">>

\* hashQuery: the digest of JSON.stringify({ siteUrl, query }); the digest of
\* two texts is the same only when the texts are
HashQuery(siteUrl, query) ==
    [sha256 |-> Stringify(<<<<"siteUrl", siteUrl>>, <<"query", Stringify(query)>>>>)]

\* the rows `SELECT response ... WHERE query_hash = ? AND expires_at > ?` finds
SelectLive(c, hash) == { e \in c.entries : e.query_hash = hash /\ e.expires_at > c.now }

\* `row?.response || null`: null is None
OrNull(response) == IF response = "" THEN None ELSE Some(response)

\* CacheStore.get
CacheStoreGet(c, siteUrl, query) ==
    LET rows == SelectLive(c, HashQuery(siteUrl, query)) IN
    IF rows = {} THEN None ELSE OrNull((CHOOSE e \in rows : TRUE).response)

\* CacheStore.set: INSERT OR REPLACE on the unique query_hash
CacheStoreSet(c, siteUrl, query, response) ==
    LET hash == HashQuery(siteUrl, query) IN
    { e \in c.entries : e.query_hash # hash }
    \cup { [ query_hash |-> hash, site_url |-> siteUrl, query |-> Stringify(query),
             response |-> response, created_at |-> c.now, expires_at |-> c.now + c.ttl ] }

\* CacheStore.clearExpired: `DELETE FROM query_cache WHERE expires_at <= ?`
ClearExpired(c) == { e \in c.entries : e.expires_at > c.now }

\* no resource has been listed or read: sites is the listing of the service,
\* resources the URIs advertised from it, uri the URI being read, operation
\* and siteUrl what the read asks of the client, and outcome how it ended
IdleResource ==
    [ pc |-> "idle", sites |-> <<>>, resources |-> <<>>, uri |-> <<>>, credentialsOk |-> TRUE,
      operation |-> "", siteUrl |-> <<>>, outcome |-> "none", error |-> NoError,
      value |-> NoResult ]

\* encodeURIComponent of one character: ":" and "/" are escaped, letters,
\* digits, "-" and "." are not
EncodeChar(c) ==
    IF c = ":" THEN <<"%","3","A">> ELSE IF c = "/" THEN <<"%","2","F">> ELSE <<c>>

\* encodeURIComponent
RECURSIVE EncodeURIComponent(_)
EncodeURIComponent(text) ==
    IF text = <<>> THEN <<>> ELSE EncodeChar(Head(text)) \o EncodeURIComponent(Tail(text))

\* decodeURIComponent: the escapes of ":" and "/" are undone
RECURSIVE DecodeURIComponent(_)
DecodeURIComponent(text) ==
    IF text = <<>> THEN <<>>
    ELSE IF StartsWith(text, <<"%","3","A">>)
    THEN <<":">> \o DecodeURIComponent(SubSeq(text, 4, Len(text)))
    ELSE IF StartsWith(text, <<"%","2","F">>)
    THEN <<"/">> \o DecodeURIComponent(SubSeq(text, 4, Len(text)))
    ELSE <<Head(text)>> \o DecodeURIComponent(Tail(text))

GscSites == <<"g","s","c",":","/","/","s","i","t","e","s">>
SitemapsSuffix == <<"/","s","i","t","e","m","a","p","s">>

\* `gsc://sites/${encodedUrl}/sitemaps`
SitemapsUri(siteUrl) == GscSites \o <<"/">> \o EncodeURIComponent(siteUrl) \o SitemapsSuffix

\* getAllResources: listing is None when the client cannot be created or the
\* listing fails, and the site list otherwise
GetAllResources(listing) ==
    <<GscSites>> \o (IF IsSome(listing)
                     THEN [i \in 1..Len(Get(listing)) |-> SitemapsUri(Get(listing)[i])]
                     ELSE <<>>)

\* the position of the first c in text, Len(text) + 1 when there is none
IndexOf(text, c) ==
    IF \E i \in 1..Len(text) : text[i] = c
    THEN CHOOSE i \in 1..Len(text) : text[i] = c /\ \A j \in 1..(i - 1) : text[j] # c
    ELSE Len(text) + 1

SpecialProtocols == {<<"h","t","t","p",":">>, <<"h","t","t","p","s",":">>}

\* new URL(uri) of an absolute URI without query or fragment: after `//` comes
\* the host, up to the next "/", and the pathname is what follows it; the
\* pathname of a special scheme is never empty
ParseURL(uri) ==
    LET protocol == SubSeq(uri, 1, IndexOf(uri, ":"))
        rest == SubSeq(uri, IndexOf(uri, ":") + 1, Len(uri))
        after == SubSeq(rest, 3, Len(rest))
        path == SubSeq(after, IndexOf(after, "/"), Len(after))
    IN  IF StartsWith(rest, <<"/","/">>)
        THEN [ protocol |-> protocol,
               host |-> SubSeq(after, 1, IndexOf(after, "/") - 1),
               pathname |-> IF path = <<>> /\ protocol \in SpecialProtocols
                            THEN <<"/">> ELSE path ]
        ELSE [protocol |-> protocol, host |-> <<>>, pathname |-> rest]

\* `.replace(/^\/\//, '')`
StripLeadingSlashes(path) ==
    IF StartsWith(path, <<"/","/">>) THEN SubSeq(path, 3, Len(path)) ELSE path

\* split('/')
RECURSIVE Split(_)
Split(text) ==
    IF IndexOf(text, "/") > Len(text) THEN <<text>>
    ELSE <<SubSeq(text, 1, IndexOf(text, "/") - 1)>>
         \o Split(SubSeq(text, IndexOf(text, "/") + 1, Len(text)))

\* `path.split('/').filter(Boolean)`
PathParts(path) == SelectSeq(Split(path), LAMBDA part : part # <<>>)

ErrUnknownProtocol(protocol) == Err(-1, <<"U","n","k","n","o","w","n"," ","r","e","s","o","u","r","c","e"," ","p","r","o","t","o","c","o","l",":"," ">> \o protocol)
ErrUnknownResource(uri) == Err(-1, <<"U","n","k","n","o","w","n"," ","r","e","s","o","u","r","c","e",":"," ">> \o uri)

SitesPart == <<"s","i","t","e","s">>
SitemapsPart == <<"s","i","t","e","m","a","p","s">>

\* `parts.length === 1 && parts[0] === 'sites'`
IsSitesUri(parts) == Len(parts) = 1 /\ parts[1] = SitesPart

\* `parts.length === 3 && parts[0] === 'sites' && parts[2] === 'sitemaps'`
IsSitemapsUri(parts) == Len(parts) = 3 /\ parts[1] = SitesPart /\ parts[3] = SitemapsPart

\* a read that throws before it asks anything of the service
ReadThrew(r, idle, error) ==
    [ resource |-> [r EXCEPT !.pc = "done", !.outcome = "threw", !.error = error],
      client |-> idle ]

\* a read that awaits a client operation
ReadAwaits(r, idle, operation, siteUrl) ==
    [ resource |-> [r EXCEPT !.pc = "awaiting", !.operation = operation, !.siteUrl = siteUrl],
      client |-> [idle EXCEPT ![1] = Invoke(operation, NoQuery)] ]

\* handleResourceRead from its call to its first await on the remote service,
\* or to its throw: [resource, client]
HandleResourceRead(r0, uri, credentialsOk) ==
    LET r == [r0 EXCEPT !.uri = uri, !.credentialsOk = credentialsOk, !.operation = "",
                        !.siteUrl = <<>>, !.outcome = "none", !.error = NoError,
                        !.value = NoResult]
        idle == [s \in Slots |-> IdleClient]
        parsed == ParseURL(uri)
        parts == PathParts(StripLeadingSlashes(parsed.pathname))
    IN  IF ~credentialsOk THEN ReadThrew(r, idle, ErrCredentials)
        ELSE IF parsed.protocol # <<"g","s","c",":">>
        THEN ReadThrew(r, idle, ErrUnknownProtocol(parsed.protocol))
        ELSE IF IsSitesUri(parts) THEN ReadAwaits(r, idle, "listSites", <<>>)
        ELSE IF IsSitemapsUri(parts)
        THEN ReadAwaits(r, idle, "listSitemaps", DecodeURIComponent(parts[2]))
        ELSE ReadThrew(r, idle, ErrUnknownResource(uri))

\* handleResourceRead once the client operation it awaits has settled
ReadSettle(r, c) ==
    IF c.pc = "threw"
    THEN [r EXCEPT !.pc = "done", !.outcome = "threw", !.error = c.result.error]
    ELSE [r EXCEPT !.pc = "done", !.outcome = "returned", !.value = c.result]

(***************************************************************************)
(* Actions                                                                 *)
(***************************************************************************)
\* a tool is called through handleToolCall
ToolCall(name, args, defaultProperty, credentialsOk, scope, today) ==
    /\ tool.pc = "idle"
    /\ \A s \in Slots : client[s].pc = "idle"
    /\ LET h == HandleToolCall(name, args, defaultProperty, credentialsOk, scope, today) IN
         /\ tool' = h.tool
         /\ client' = h.client
    /\ UNCHANGED <<rollup, timezone, formatter, cache, resource>>


\* an operation of the cache store, as the log keeps it
Logged(op, siteUrl, query, response, at) ==
    [op |-> op, siteUrl |-> siteUrl, query |-> query, response |-> response, at |-> at]

\* CacheStore.set is called
Set(siteUrl, query, response) ==
    /\ cache' = [cache EXCEPT !.entries = CacheStoreSet(cache, siteUrl, query, response),
                              !.returned = None,
                              !.log = Append(@, Logged("set", siteUrl, query, response,
                                                       cache.now))]
    /\ UNCHANGED <<client, tool, rollup, timezone, formatter, resource>>

\* CacheStore.get is called
Fetch(siteUrl, query) ==
    /\ cache' = [cache EXCEPT !.returned = CacheStoreGet(cache, siteUrl, query),
                              !.log = Append(@, Logged("get", siteUrl, query, "", cache.now))]
    /\ UNCHANGED <<client, tool, rollup, timezone, formatter, resource>>

\* CacheStore.clearExpired is called; it returns the number of rows deleted
ClearExpiredCalled ==
    /\ cache' = [cache EXCEPT !.entries = ClearExpired(cache),
                              !.returned = Some(Cardinality(cache.entries \ ClearExpired(cache))),
                              !.log = Append(@, Logged("clearExpired", <<>>, <<>>, "",
                                                       cache.now))]
    /\ UNCHANGED <<client, tool, rollup, timezone, formatter, resource>>

\* CacheStore.clearAll is called; it returns the number of rows deleted
ClearAllCalled ==
    /\ cache' = [cache EXCEPT !.entries = {},
                              !.returned = Some(Cardinality(cache.entries)),
                              !.log = Append(@, Logged("clearAll", <<>>, <<>>, "", cache.now))]
    /\ UNCHANGED <<client, tool, rollup, timezone, formatter, resource>>

\* Date.now() moves on by dt, up to the horizon
ClockAdvances(dt, horizon) ==
    /\ cache.now + dt <= horizon
    /\ cache' = [cache EXCEPT !.now = @ + dt]
    /\ UNCHANGED <<client, tool, rollup, timezone, formatter, resource>>

\* the server handles a further tools/call request once the previous one is
\* answered: handleToolCall again, with a new client
NextToolCall(name, args, defaultProperty, credentialsOk, scope, today) ==
    /\ tool.pc = "done"
    /\ LET h == HandleToolCall(name, args, defaultProperty, credentialsOk, scope, today) IN
         /\ tool' = h.tool
         /\ client' = h.client
    /\ UNCHANGED <<rollup, timezone, formatter, cache, resource>>

\* resources/list is requested: getAllResources, with what its listing gave
ListResources(listing) ==
    /\ resource.pc = "idle"
    /\ resource' = [resource EXCEPT !.pc = "listed",
                                    !.sites = IF IsSome(listing) THEN Get(listing) ELSE <<>>,
                                    !.resources = GetAllResources(listing)]
    /\ UNCHANGED <<client, tool, rollup, timezone, formatter, cache>>

\* resources/read is requested: handleResourceRead up to its first await
ReadResource(uri, credentialsOk) ==
    /\ resource.pc = "listed"
    /\ LET h == HandleResourceRead(resource, uri, credentialsOk) IN
         /\ resource' = h.resource
         /\ client' = h.client
    /\ UNCHANGED <<tool, rollup, timezone, formatter, cache>>

\* the client operation a read awaits has settled, and the read ends
ReadSettles ==
    /\ resource.pc = "awaiting"
    /\ client[1].pc \in {"returned", "threw"}
    /\ resource' = ReadSettle(resource, client[1])
    /\ UNCHANGED <<client, tool, rollup, timezone, formatter, cache>>

\* a caller invokes a client operation directly
ClientCall(s, op, query) ==
    /\ client[s].pc = "idle"
    /\ tool.pc = "idle"
    /\ client' = [client EXCEPT ![s] = Invoke(op, query)]
    /\ UNCHANGED <<tool, rollup, timezone, formatter, cache, resource>>

\* the remote service answers the request in flight
RemoteResponse(s, data) ==
    /\ client[s].pc = "inflight"
    /\ client' = [client EXCEPT ![s] =
                     [OnResponse(client[s], data) EXCEPT !.remoteError = None]]
    /\ tool' = ToolSettle(tool, client', timezone)
    /\ UNCHANGED <<rollup, timezone, formatter, cache, resource>>

\* the request in flight fails
RemoteFailure(s, error) ==
    /\ client[s].pc = "inflight"
    /\ client' = [client EXCEPT ![s] =
                     [OnFailure(client[s], error) EXCEPT !.remoteError = Some(error)]]
    /\ tool' = ToolSettle(tool, client', timezone)
    /\ UNCHANGED <<rollup, timezone, formatter, cache, resource>>

\* the backoff timer fires
BackoffElapsed(s) ==
    /\ client[s].pc = "sleeping"
    /\ client' = [client EXCEPT ![s] = OnWake(client[s])]
    /\ UNCHANGED <<tool, rollup, timezone, formatter, cache, resource>>

IdleRollup ==
    [ pc |-> "idle", rows |-> <<>>, granularity |-> "weekly",
      startDate |-> <<1970, 1, 1>>, endDate |-> <<1970, 1, 1>>,
      out |-> [threw |-> FALSE, rows |-> <<>>] ]

\* rollupByGranularity is applied to its arguments
ApplyRollup ==
    /\ rollup.pc = "ready"
    /\ rollup' = [rollup EXCEPT !.pc = "done",
                                !.out = RollupByGranularity(rollup.rows, rollup.granularity,
                                                            rollup.startDate, rollup.endDate,
                                                            timezone)]
    /\ UNCHANGED <<client, tool, timezone, formatter, cache, resource>>

InitClient ==
    /\ client = [s \in Slots |-> IdleClient]
    /\ tool = IdleTool
    /\ rollup = IdleRollup
    /\ timezone = 0
    /\ formatter = IdleFormatter /\ cache = EmptyCache /\ resource = IdleResource

(***************************************************************************)
(* The client specification: one client operation, called directly         *)
(***************************************************************************)
ClientRowLimits ==
    {None, Some(1), Some(DEFAULT_ROW_LIMIT), Some(MAX_ROWS_PER_REQUEST)}
    \cup { Some(k * MAX_ROWS_PER_REQUEST + 1) : k \in 1..(MaxPages - 1) }
    \cup { Some(k * MAX_ROWS_PER_REQUEST) : k \in 2..MaxPages }

ClientStartRows == {None, Some(100)}

ClientQueries ==
    { Query(rl, sr, Some(<<"query">>), <<2024, 1, 1>>, <<2024, 1, 31>>) :
        rl \in ClientRowLimits, sr \in ClientStartRows }

ClientRaws == {RawShoes, RawBare}

NextClient ==
    \/ \E q \in ClientQueries : ClientCall(1, "searchAnalytics", q)
    \/ \E op \in ClientOps \ {"searchAnalytics"} : ClientCall(1, op, NoQuery)
    \/ \E data \in Responses(client[1].reqRowLimit, ClientRaws) : RemoteResponse(1, data)
    \/ \E error \in RemoteErrors : RemoteFailure(1, error)
    \/ BackoffElapsed(1)

SpecClient == InitClient /\ [][NextClient]_vars

(***************************************************************************)
(* Properties of the client                                                *)
(***************************************************************************)
\* the first attempt of every withRetry: one entry per underlying query call
LogicalCalls(c) == SelectSeq(c.calls, LAMBDA k : k.attempt = 0)

\* the number of attempts of the withRetry running (or last run)
CurrentAttempts(c) ==
    Len(c.calls) + 1 - CHOOSE i \in 1..Len(c.calls) :
                          /\ c.calls[i].attempt = 0
                          /\ \A j \in (i + 1)..Len(c.calls) : c.calls[j].attempt # 0

EffectiveRowLimit(c) == DestructureDefault(c.query.rowLimit, CLIENT_DEFAULT_ROW_LIMIT)

\* C1: searchAnalytics issues exactly one underlying query call (retries aside)
\* when rowLimit <= 25000; when rowLimit > 25000 it issues at most
\* ceil(rowLimit / 25000) calls, the i-th at startRow + (i - 1) * 25000, a
\* further call only after every earlier page came back full, and exactly
\* ceil(rowLimit / 25000) calls when it returns with every page full.
C1_CallsPerRowLimit ==
    LET c == client[1]
        rl == EffectiveRowLimit(c)
        lc == LogicalCalls(c)
        n == Len(lc)
    IN  c.op = "searchAnalytics" =>
          /\ rl <= 25000 => n = 1
          /\ rl > 25000 =>
                /\ n >= 1
                /\ n <= CeilDiv(rl, 25000)
                /\ \A i \in 1..n :
                      lc[i].startRow = OrDefault(c.query.startRow, 0) + (i - 1) * 25000
                /\ RowCount(c.allRows) >= (n - 1) * 25000
                /\ (c.pc = "returned" /\ RowCount(c.allRows) = Min(n * 25000, rl))
                      => n = CeilDiv(rl, 25000)

\* a query for 50001 rows has returned after three calls
C1_Witness ==
    /\ client[1].op = "searchAnalytics"
    /\ client[1].pc = "returned"
    /\ client[1].query.rowLimit = Some(50001)
    /\ Len(LogicalCalls(client[1])) = 3
    /\ RowCount(client[1].allRows) = 50001

\* C2: the i-th wait of a withRetry is 1000 * 2^(i-1) ms and separates attempt
\* i from attempt i + 1; when withRetry gives up on a retryable failure it has
\* made exactly 4 attempts, waited 1000, 2000 and 4000 ms, and throws the
\* failure of the last attempt.
C2_RetryExhaustion ==
    LET c == client[1] IN
    c.pc # "idle" =>
      /\ \A i \in 1..Len(c.sleeps) : c.sleeps[i] = <<1000, 2000, 4000>>[i]
      /\ Len(c.sleeps) = IF c.pc = "sleeping" THEN c.attempt + 1 ELSE c.attempt
      /\ CurrentAttempts(c) = c.attempt + 1
      /\ (IsSome(c.thrown) /\ IsRetryableError(Get(c.remoteError))) =>
            /\ CurrentAttempts(c) = 4
            /\ c.sleeps = <<1000, 2000, 4000>>
            /\ c.thrown = c.remoteError

\* a search query gave up after four retryable failures
C2_Witness ==
    /\ client[1].op = "searchAnalytics"
    /\ client[1].pc = "threw"
    /\ client[1].thrown = Some(Err503)
    /\ CurrentAttempts(client[1]) = 4

C4_TransientIsRetried ==
    LET c == client[1] IN
    (/\ IsSome(c.thrown)
     /\ \/ Get(c.thrown).status \in 500..599
        \/ Get(c.thrown).status = 429
        \/ Get(c.thrown).status = 0)
    => c.attempt = MAX_RETRIES

\* C5: no search-analytics request asks for more than 25000 rows.
C5_PerCallRowCeiling ==
    \A i \in 1..Len(client[1].calls) :
        client[1].calls[i].op = "searchAnalytics" => client[1].calls[i].rowLimit <= 25000

\* a query for 75000 rows is at its third request of 25000 rows
C5_Witness ==
    /\ client[1].query.rowLimit = Some(75000)
    /\ Len(LogicalCalls(client[1])) = 3
    /\ \A i \in 1..Len(client[1].calls) : client[1].calls[i].rowLimit = 25000

\* C6 (as claimed): a permanent failure other than not-found surfaces as a
\* failure of the client operation, whichever operation it is.
C6_PermanentFailureSurfaces ==
    LET c == client[1] IN
    (/\ IsSome(c.thrown)
     /\ Get(c.thrown).status \in 400..499
     /\ Get(c.thrown).status # 404
     /\ ~IsRetryableError(Get(c.thrown)))
    => c.result.kind = "error"

\* the query is served page by page
Paginating(c) == c.op = "searchAnalytics" /\ c.paginated

\* the rows asked for by the pages that came back, the page of the request
\* at index `last` aside
RowsOfEarlierPages(c, last) ==
    LET T[i \in 0..Len(c.calls)] ==
          IF i = 0 THEN 0
          ELSE T[i - 1] + (IF c.calls[i].outcome = "ok" /\ i < last
                           THEN c.calls[i].rowLimit ELSE 0)
    IN  T[Len(c.calls)]

\* C26: within one paginated query the page requests are strictly
\* sequential: the request for page k+1 is issued only after the response of
\* page k, all its retries included, has been received and found to hold
\* exactly the number of rows requested, so at most one page request of a
\* query is in flight at any time.
C26_PagesAreSequential ==
    LET c == client[1] IN
    Paginating(c) =>
      /\ \A i \in 1..Len(c.calls) :
           c.calls[i].outcome = "pending" => (i = Len(c.calls) /\ c.pc = "inflight")
      /\ c.pc = "inflight" => c.calls[Len(c.calls)].outcome = "pending"
      /\ \A i \in 2..Len(c.calls) :
           IF c.calls[i].attempt = 0
           THEN /\ c.calls[i - 1].outcome = "ok"
                /\ c.calls[i].startRow = c.calls[i - 1].startRow + c.calls[i - 1].rowLimit
                /\ RowCount(c.allRows) >= RowsOfEarlierPages(c, i)
           ELSE /\ c.calls[i - 1].outcome = "error"
                /\ c.calls[i].attempt = c.calls[i - 1].attempt + 1
                /\ c.calls[i].startRow = c.calls[i - 1].startRow
      /\ c.pc \in {"inflight", "sleeping", "threw"}
           => RowCount(c.allRows) = RowsOfEarlierPages(c, Len(c.calls) + 1)

\* the second page is asked for after the first page failed once and then
\* came back full
C26_Witness ==
    /\ Paginating(client[1]) /\ client[1].pc = "inflight"
    /\ Len(client[1].calls) = 3
    /\ client[1].calls[1].outcome = "error" /\ client[1].calls[2].outcome = "ok"
    /\ client[1].calls[3].attempt = 0 /\ client[1].calls[3].outcome = "pending"
    /\ client[1].calls[3].startRow = client[1].calls[1].startRow + 25000
    /\ RowCount(client[1].allRows) = 25000

\* the client specification with its scheduling: a request in flight
\* eventually returns or fails, and a backoff timer eventually fires
SpecClientFair ==
    /\ InitClient /\ [][NextClient]_vars
    /\ WF_vars(\/ \E data \in Responses(client[1].reqRowLimit, ClientRaws) :
                      RemoteResponse(1, data)
               \/ \E error \in RemoteErrors : RemoteFailure(1, error))
    /\ WF_vars(BackoffElapsed(1))

\* the execution has ended with a row set or with an error
Ended(c) ==
    \/ c.pc = "returned" /\ c.result.kind = "value"
    \/ c.pc = "threw" /\ c.result.kind = "error"

\* at most 4 attempts per page and at most ceil(rowLimit / 25000) pages
WithinAttemptsAndPages(c) ==
    /\ \A i \in 1..Len(c.calls) :
         /\ c.calls[i].attempt <= 3
         /\ (i > 1 /\ c.calls[i].attempt > 0)
              => c.calls[i].attempt = c.calls[i - 1].attempt + 1
    /\ c.calls # <<>> => c.calls[1].attempt = 0
    /\ Len(LogicalCalls(c)) <= CeilDiv(EffectiveRowLimit(c), 25000)

\* C27: every searchAnalytics execution terminates, provided each remote call
\* eventually returns or fails: it ends with a row set or with an error,
\* after at most 4 attempts per page and at most ceil(rowLimit / 25000)
\* pages, even when the service keeps failing with retryable errors or keeps
\* returning full pages.
C27_SearchAnalyticsTerminates ==
    /\ [](client[1].op = "searchAnalytics" => WithinAttemptsAndPages(client[1]))
    /\ (client[1].op = "searchAnalytics") ~> Ended(client[1])

\* a query for 75000 rows got two full pages and gave up on the third after
\* four retryable failures
C27_Witness ==
    /\ Paginating(client[1]) /\ client[1].query.rowLimit = Some(75000)
    /\ client[1].pc = "threw" /\ Ended(client[1])
    /\ Len(LogicalCalls(client[1])) = 3 /\ Len(client[1].calls) = 6
    /\ client[1].calls[6].attempt = 3
    /\ IsRetryableError(Get(client[1].thrown))

\* the pages that came back, in the order of their requests
PagesReceived(c) == SelectSeq(c.calls, LAMBDA k : k.outcome = "ok")

\* the rows kept are one block per page received, none larger than its request
KeepsPagesInOrder(c) ==
    /\ Len(c.allRows) <= Len(PagesReceived(c))
    /\ \A i \in 1..Len(c.allRows) :
         /\ c.allRows[i].n >= 1
         /\ c.allRows[i].n <= PagesReceived(c)[i].rowLimit
         /\ PagesReceived(c)[i].startRow
              = OrDefault(c.query.startRow, 0) + RowCount(SubSeq(c.allRows, 1, i - 1))

\* C28: a paginated query is all-or-nothing: if a page call fails for good or
\* exhausts its retries, the whole query fails with that error and returns
\* none of the rows of the earlier pages; when it succeeds, the rows returned
\* are the pages in request order, each new page appended to the rows
\* before it, and their count never exceeds rowLimit (the service returning
\* at most the rows requested per call).
C28_PaginatedAllOrNothing ==
    /\ [](Paginating(client[1]) =>
            LET c == client[1] IN
            /\ KeepsPagesInOrder(c)
            /\ RowCount(c.allRows) <= EffectiveRowLimit(c)
            /\ IsSome(c.thrown) =>
                 /\ c.pc = "threw" /\ c.result.kind = "error"
                 /\ c.result.error = Get(c.thrown) /\ c.thrown = c.remoteError
                 /\ c.result.rows = None
            /\ c.pc = "returned" =>
                 /\ c.result.kind = "value" /\ c.result.rows = Some(c.allRows)
                 /\ ~IsSome(c.thrown))
    /\ [][(Paginating(client[1]) /\ Paginating(client'[1]))
            => /\ Len(client'[1].allRows) >= Len(client[1].allRows)
               /\ SubSeq(client'[1].allRows, 1, Len(client[1].allRows)) = client[1].allRows]_vars

\* a query for 50001 rows failed on its third page with a 403, two full
\* pages in hand: it throws the 403 and returns no row
C28_Witness ==
    /\ Paginating(client[1]) /\ client[1].query.rowLimit = Some(50001)
    /\ client[1].pc = "threw" /\ client[1].thrown = Some(Err403)
    /\ RowCount(client[1].allRows) = 50000
    /\ client[1].result.rows = None

(***************************************************************************)
(* The rollup specification: rollupByGranularity applied to bounded inputs *)
(***************************************************************************)
Timezones == {-300, 0}

FirstRollupDay == DaysFromCivil(2023, 12, 30)

RollupDates ==
    { LET c == CivilFromDays(FirstRollupDay + k) IN DateKey(c.y, c.m, c.d) :
        k \in 0..(DateSpan - 1) }

Row(keys, clicks, impressions, ctr, position) ==
    [ keys |-> keys, clicks |-> clicks, impressions |-> impressions,
      ctr |-> ctr, position |-> position ]

RollupRowChoices ==
    { Row(Some(<<k>>), 10, 100, <<1, 10>>, <<30, 10>>) : k \in RollupDates }
    \cup { Row(Some(<<k>>), 5, 400, <<1, 80>>, <<75, 10>>) : k \in RollupDates }
    \cup { Row(Some(<<TextKey("shoes")>>), 7, 70, <<1, 10>>, <<20, 10>>),
           Row(None, 3, 30, <<1, 10>>, <<10, 10>>),
           Row(Some(<<DateKey(2024, 1, 2)>>), 0, 0, <<0, 1>>, <<50, 10>>) }

RollupInputs ==
    UNION { [1..n -> {Block(1, r) : r \in RollupRowChoices}] : n \in 1..MaxRollupRows }

\* granularity, startDate, endDate
RollupModes ==
    { <<"weekly", <<2024, 1, 1>>, <<2024, 1, 7>>>>,
      <<"monthly", <<2024, 1, 1>>, <<2024, 1, 7>>>>,
      <<"auto", <<2024, 1, 1>>, <<2024, 1, 22>>>>,
      <<"auto", <<2024, 1, 1>>, <<2024, 1, 23>>>>,
      <<"auto", <<2024, 1, 1>>, <<2024, 2, 4>>>>,
      <<"auto", <<2024, 1, 1>>, <<2024, 3, 31>>>>,
      <<"auto", <<2024, 1, 1>>, <<2024, 4, 1>>>> }

InitRollup ==
    /\ client = [s \in Slots |-> IdleClient]
    /\ tool = IdleTool
    /\ timezone \in Timezones
    /\ rollup \in { [ pc |-> "ready", rows |-> rows, granularity |-> mode[1],
                       startDate |-> mode[2], endDate |-> mode[3],
                       out |-> [threw |-> FALSE, rows |-> <<>>] ] :
                     rows \in RollupInputs, mode \in RollupModes }
    /\ formatter = IdleFormatter /\ cache = EmptyCache /\ resource = IdleResource

NextRollup == ApplyRollup

SpecRollup == InitRollup /\ [][NextRollup]_vars

(***************************************************************************)
(* Properties of the rollup                                                *)
(***************************************************************************)
RollupGranularity ==
    ActualGranularity(rollup.granularity, rollup.startDate, rollup.endDate)

\* the output row whose first key is `key`, if any
HasBucket(key) ==
    \E i \in 1..Len(rollup.out.rows) : rollup.out.rows[i].row.keys = Some(<<key>>)

\* C7 (as claimed): in a weekly rollup every row whose first key is a date
\* is placed in the bucket keyed by the Monday on or before that date: the
\* bucket key is a Monday, not later than the date and at most 6 days
\* before it.
C7_WeeklyBucketIsMondayOnOrBefore ==
    (rollup.pc = "done" /\ RollupGranularity = "weekly" /\ ~rollup.out.threw) =>
      \A i \in 1..Len(rollup.rows) :
        LET row == rollup.rows[i].row IN
        (~Skipped(row) /\ Get(row.keys)[1].kind = "date") =>
          LET key == Get(row.keys)[1]
              day == DaysFromCivil(key.y, key.m, key.d)
              bucket == BucketKey("weekly", key, timezone)
              bucketDay == DaysFromCivil(bucket.y, bucket.m, bucket.d)
          IN  /\ HasBucket(bucket)
              /\ (bucketDay + 3) % 7 = 0
              /\ bucketDay <= day
              /\ day - bucketDay <= 6

\* the input rows that fall into the bucket of an output row
Members(key) ==
    { i \in 1..Len(rollup.rows) :
        /\ ~Skipped(rollup.rows[i].row)
        /\ BucketKey(RollupGranularity, Get(rollup.rows[i].row.keys)[1], timezone) = key }

RECURSIVE SumOfField(_, _)
SumOfField(S, field) ==
    IF S = {} THEN 0
    ELSE LET i == CHOOSE i \in S : TRUE
         IN  rollup.rows[i].n * rollup.rows[i].row[field] + SumOfField(S \ {i}, field)

RECURSIVE SumOfPositions(_)
SumOfPositions(S) ==
    IF S = {} THEN <<0, 1>>
    ELSE LET i == CHOOSE i \in S : TRUE
         IN  RatAdd(RatScale(rollup.rows[i].n, rollup.rows[i].row.position),
                    SumOfPositions(S \ {i}))

RECURSIVE SumOfCtrs(_)
SumOfCtrs(S) ==
    IF S = {} THEN <<0, 1>>
    ELSE LET i == CHOOSE i \in S : TRUE
         IN  RatAdd(RatScale(rollup.rows[i].n, rollup.rows[i].row.ctr), SumOfCtrs(S \ {i}))

RECURSIVE CountOf(_)
CountOf(S) ==
    IF S = {} THEN 0
    ELSE LET i == CHOOSE i \in S : TRUE IN rollup.rows[i].n + CountOf(S \ {i})

RatEqual(a, b) == a[1] * b[2] = b[1] * a[2]

RolledUp == rollup.pc = "done" /\ RollupGranularity \in {"weekly", "monthly"} /\ ~rollup.out.threw

\* C15: in every bucket of a rollup the output row's clicks and impressions
\* are the sums over the bucket's input rows, its position is the unweighted
\* arithmetic mean of their positions, and its ctr is the summed clicks
\* divided by the summed impressions, 0 when the impressions sum to 0.
C15_BucketAggregation ==
    RolledUp =>
      \A o \in 1..Len(rollup.out.rows) :
        LET out == rollup.out.rows[o].row
            members == Members(Get(out.keys)[1])
        IN  /\ members # {}
            /\ out.clicks = SumOfField(members, "clicks")
            /\ out.impressions = SumOfField(members, "impressions")
            /\ RatEqual(RatScale(CountOf(members), out.position), SumOfPositions(members))
            /\ IF SumOfField(members, "impressions") = 0 THEN out.ctr[1] = 0
               ELSE RatEqual(out.ctr, << SumOfField(members, "clicks"),
                                         SumOfField(members, "impressions") >>)

\* a bucket of two rows whose ctr, 15 / 500, is not the mean of their ctr values
C15_Witness ==
    /\ RolledUp
    /\ \E o \in 1..Len(rollup.out.rows) :
         LET out == rollup.out.rows[o].row
             members == Members(Get(out.keys)[1])
         IN  /\ Cardinality(members) = 2
             /\ out.clicks = 15 /\ out.impressions = 500 /\ RatEqual(out.ctr, <<3, 100>>)
             /\ ~RatEqual(RatScale(2, out.ctr), SumOfCtrs(members))

\* the whole-day span between startDate and endDate
SpanDays ==
    DaysFromCivil(rollup.endDate[1], rollup.endDate[2], rollup.endDate[3])
    - DaysFromCivil(rollup.startDate[1], rollup.startDate[2], rollup.startDate[3])

\* C16: granularity 'auto' resolves from the whole-day span between startDate
\* and endDate: above 90 days the rollup is the monthly one, above 21 and up
\* to 90 days the weekly one, and up to 21 days the input rows are returned
\* unchanged, the same rows in the same order.
C16_AutoResolvesFromSpan ==
    (rollup.pc = "done" /\ rollup.granularity = "auto") =>
      /\ SpanDays > 90 =>
           /\ rollup.out = RollupByGranularity(rollup.rows, "monthly", rollup.startDate,
                                               rollup.endDate, timezone)
           /\ \A o \in 1..Len(rollup.out.rows) :
                Get(rollup.out.rows[o].row.keys)[1].kind \in {"month", "text"}
      /\ (SpanDays > 21 /\ SpanDays <= 90) =>
           /\ rollup.out = RollupByGranularity(rollup.rows, "weekly", rollup.startDate,
                                               rollup.endDate, timezone)
           /\ \A o \in 1..Len(rollup.out.rows) :
                Get(rollup.out.rows[o].row.keys)[1].kind = "date"
      /\ SpanDays <= 21 => (~rollup.out.threw /\ rollup.out.rows = rollup.rows)

\* rows of Jan 1 to Feb 4 under 'auto': two rows of one week have become one
\* weekly row
C16_Witness ==
    /\ rollup.pc = "done" /\ rollup.granularity = "auto"
    /\ rollup.startDate = <<2024, 1, 1>> /\ rollup.endDate = <<2024, 2, 4>>
    /\ Len(rollup.rows) = 2 /\ Len(rollup.out.rows) = 1
    /\ Get(rollup.out.rows[1].row.keys)[1].kind = "date"
    /\ rollup.out.rows[1].row.clicks = 15

\* the place of a bucket key in the order of the key strings: the dates and
\* months by their digits, a key that is no date after them
KeyOrdinal(key) == IF key.kind = "text" THEN 100000000 ELSE 10000 * key.y + 100 * key.m + key.d

\* the bucket keys of the input rows that have a first key
InputBucketKeys ==
    { BucketKey(RollupGranularity, Get(rollup.rows[i].row.keys)[1], timezone) :
        i \in { j \in 1..Len(rollup.rows) : ~Skipped(rollup.rows[j].row) } }

\* C25: the rollup output has exactly one row per distinct bucket key and
\* its rows are sorted strictly ascending by bucket key, whatever the order
\* of the input rows.
C25_OneSortedRowPerBucket ==
    RolledUp =>
      LET out == rollup.out.rows IN
      /\ { Get(out[o].row.keys)[1] : o \in 1..Len(out) } = InputBucketKeys
      /\ Len(out) = Cardinality(InputBucketKeys)
      /\ \A o \in 1..Len(out) : out[o].n = 1 /\ Len(Get(out[o].row.keys)) = 1
      /\ \A o \in 1..(Len(out) - 1) :
           KeyOrdinal(Get(out[o].row.keys)[1]) < KeyOrdinal(Get(out[o + 1].row.keys)[1])

\* two dated rows given latest first fall into two weeks: the output holds the
\* earlier week first
C25_Witness ==
    /\ RolledUp /\ RollupGranularity = "weekly"
    /\ Len(rollup.rows) = 2 /\ Len(rollup.out.rows) = 2
    /\ ~Skipped(rollup.rows[1].row) /\ ~Skipped(rollup.rows[2].row)
    /\ KeyOrdinal(Get(rollup.rows[2].row.keys)[1]) < KeyOrdinal(Get(rollup.rows[1].row.keys)[1])
    /\ KeyOrdinal(Get(rollup.out.rows[1].row.keys)[1])
         < KeyOrdinal(Get(rollup.out.rows[2].row.keys)[1])

\* the input rows that have a first key
KeyedRows == { i \in 1..Len(rollup.rows) : ~Skipped(rollup.rows[i].row) }

\* the sum of a field over the output rows
OutputSum(field) ==
    LET T[o \in 0..Len(rollup.out.rows)] ==
          IF o = 0 THEN 0 ELSE T[o - 1] + rollup.out.rows[o].n * rollup.out.rows[o].row[field]
    IN  T[Len(rollup.out.rows)]

RawSocks ==
    RawRow(Some(<<TextKey("socks")>>), Some(100), Some(200), Some(<<1, 2>>), Some(<<78, 10>>))
RawSunday ==
    RawRow(Some(<<DateKey(2024, 1, 7)>>), Some(10), Some(100), Some(<<1, 10>>), Some(<<30, 10>>))

\* a row of the dimensions date and query
RawMondayShoes ==
    RawRow(Some(<<DateKey(2024, 1, 8), TextKey("shoes")>>), Some(4), Some(40), Some(<<1, 10>>),
           Some(<<50, 10>>))

\* the rows of the first query (period 1) and of the second (period 2)
ToolRaws(s) == IF s = 1 THEN {RawShoes, RawSunday, RawMondayShoes} ELSE {RawSocks}

\* in this specification the service omits `rows` when it has none
ToolResponses(s, rowLimit) ==
    { d \in Responses(rowLimit, ToolRaws(s)) : d.rows # Some(<<>>) }

ToolErrors == {Err503, Err403}

ToolRowLimits == {None, Some(0), Some(DEFAULT_ROW_LIMIT)} \cup {Some(5000 + (MaxPages - 2) * 25000)}

ToolSites == {<<Some("sc-domain:example.com"), None>>, <<None, Some("sc-domain:example.com")>>,
              <<None, None>>}

\* the day the tools are called, as the clock gives it
Today == DaysFromCivil(2024, 2, 1)

\* startDate and endDate of searchanalytics.query, and the two periods compared
QueryDates == <<<<2024, 1, 1>>, <<2024, 1, 14>>>>
Period1 == <<<<2024, 1, 8>>, <<2024, 1, 14>>>>
Period2 == <<<<2024, 1, 1>>, <<2024, 1, 7>>>>

QueryToolArgs ==
    { ToolArgs(site[1], rl, sr, dims, gran, dates, None, None) :
        site \in ToolSites,
        rl \in ToolRowLimits,
        sr \in {None, Some(-1)},
        dims \in {Some(<<"date">>), Some(<<"query">>), Some(<<"region">>),
                  Some(<<"date", "query">>)},
        gran \in {None, Some("weekly")},
        dates \in {Some(QueryDates), None} }

CompareToolArgs ==
    { ToolArgs(Some("sc-domain:example.com"), rl, None, Some(<<"query">>), None,
               None, Some(Period1), Some(Period2)) : rl \in ToolRowLimits }

InitTool ==
    /\ client = [s \in Slots |-> IdleClient]
    /\ tool = IdleTool
    /\ rollup = IdleRollup
    /\ timezone = 0
    /\ formatter = IdleFormatter /\ cache = EmptyCache /\ resource = IdleResource

NextTool ==
    \/ \E site \in ToolSites, args \in QueryToolArgs, ok \in BOOLEAN :
          /\ args.siteUrl = site[1]
          /\ ToolCall("searchanalytics.query", args, site[2], ok, "readonly", Today)
    \/ \E args \in CompareToolArgs, ok \in BOOLEAN :
          ToolCall("report.comparePeriods", args, None, ok, "readonly", Today)
    \/ ToolCall("gsc.nothing", NoArgs, None, TRUE, "readonly", Today)
    \/ \E s \in Slots : \E data \in ToolResponses(s, client[s].reqRowLimit) :
          RemoteResponse(s, data)
    \/ \E s \in Slots, error \in ToolErrors : RemoteFailure(s, error)
    \/ \E s \in Slots : BackoffElapsed(s)

SpecTool == InitTool /\ [][NextTool]_vars

(***************************************************************************)
(* Properties of the tools                                                 *)
(***************************************************************************)
CompareDone ==
    tool.pc = "done" /\ tool.name = "report.comparePeriods" /\ ~tool.result.isError

\* C8 (as claimed): a non-negative percent change carries a '+' prefix, so
\* period1 clicks = 120 against period2 clicks = 100 gives "+20.0%".
C8_PercentHasExplicitSign ==
    (/\ CompareDone
     /\ IsSome(tool.result.body.changes)
     /\ Get(tool.result.body.totals1).clicks = 120
     /\ Get(tool.result.body.totals2).clicks = 100)
    => Get(tool.result.body.changes).clicksPercent = "+20.0%"

\* C9 (as claimed): the delta block is null as soon as one of the two
\* periods returned no row (its row set is absent or empty).
C9_ChangesOnlyWithRows ==
    (CompareDone /\ (tool.result.body.rowCount1 = 0 \/ tool.result.body.rowCount2 = 0))
    => tool.result.body.changes = None

\* the tool's arguments violate the query-descriptor shape
ViolatesQueryShape(args) ==
    \/ IsSome(args.rowLimit) /\ (Get(args.rowLimit) < 1 \/ Get(args.rowLimit) > 25000)
    \/ IsSome(args.startRow) /\ Get(args.startRow) < 0
    \/ IsSome(args.dimensions)
          /\ \E i \in 1..Len(Get(args.dimensions)) : Get(args.dimensions)[i] \notin Dimensions

\* C10 (as claimed): a tool call whose query arguments violate the
\* query-descriptor shape issues no remote call and returns an error
\* payload.
C10_MalformedQueryRejected ==
    (tool.name \in SearchAnalyticsToolNames /\ ViolatesQueryShape(tool.args)) =>
      /\ \A s \in Slots : client[s].calls = <<>>
      /\ tool.pc = "done" => tool.result.isError

\* searchanalytics.query has returned rows, and the rows the service sent had
\* one key per requested dimension
QueryReturnedKeyedRows ==
    /\ tool.pc = "done" /\ tool.name = "searchanalytics.query" /\ ~tool.result.isError
    /\ IsSome(tool.args.dimensions) /\ IsSome(tool.result.body.rows)
    /\ client[1].pc = "returned" /\ IsSome(client[1].result.rows)
    /\ \A i \in 1..Len(Get(client[1].result.rows)) :
         LET keys == Get(client[1].result.rows)[i].row.keys IN
         IsSome(keys) /\ Len(Get(keys)) = Len(Get(tool.args.dimensions))

\* C17 (as claimed): every row searchanalytics.query returns carries exactly
\* one key per requested dimension, also when the rows come from the weekly
\* or monthly rollup.
C17_OneKeyPerDimension ==
    QueryReturnedKeyedRows =>
      \A i \in 1..Len(Get(tool.result.body.rows)) :
        LET keys == Get(tool.result.body.rows)[i].row.keys IN
        IsSome(keys) /\ Len(Get(keys)) = Len(Get(tool.args.dimensions))

(***************************************************************************)
(* The server specification: the sitemap, URL inspection, opportunity and  *)
(* export tools, called through handleToolCall                             *)
(***************************************************************************)
\* the most rows a generated response holds: two more than twice the default
\* result limit, so that the default limit truncates rows as well as issues
ManyRows == 2 * DEFAULT_ROW_LIMIT + 2

\* the length of the batch that is one URL too long
TooManyUrls == MAX_BATCH_URLS + 1

SiteDomain == ScDomainPrefix \o <<"a",".","i","o">>
PageA == HttpsPrefix \o <<"a",".","i","o">> \o <<"/","a">>
PageB == HttpsPrefix \o WwwPrefix \o <<"a",".","i","o">> \o <<"/","b">>
Shoes == <<"s","h","o","e","s">>
Socks == <<"s","o","c","k","s">>
Hats == <<"h","a","t","s">>

\* the arguments of a tool other than the search analytics tools
ServerArgs(siteUrl, dates, rowLimit, dimensions, extras) ==
    extras @@ ToolArgs(siteUrl, rowLimit, None, dimensions, None, dates, None, None)

\* a row of the service for the dimensions query and page
PageRow(query, page, clicks, impressions, ctr, position) ==
    RawRow(Some(<<TextKey(query), TextKey(page)>>), Some(clicks), Some(impressions),
           Some(ctr), Some(position))

\* the rows the service holds for the site, one per query and page
ServerRows ==
    << PageRow(Shoes, PageA, 5, 500, <<1, 100>>, <<32, 10>>),
       PageRow(Shoes, PageB, 9, 300, <<3, 100>>, <<78, 10>>),
       PageRow(Socks, PageA, 10, 1000, <<1, 100>>, <<10, 1>>),
       PageRow(Socks, PageB, 0, 100, <<0, 1>>, <<20, 1>>),
       PageRow(Hats, PageA, 1, 30, <<1, 30>>, <<4, 1>>),
       PageRow(Hats, PageB, 0, 10, <<0, 1>>, <<6, 1>>) >>

\* the rows of a set of indices, in ascending or descending order of index
RECURSIVE PickRows(_, _, _)
PickRows(picked, i, ascending) ==
    IF i > Len(ServerRows) THEN <<>>
    ELSE IF ascending
    THEN (IF i \in picked THEN <<Block(1, ServerRows[i])>> ELSE <<>>)
         \o PickRows(picked, i + 1, ascending)
    ELSE PickRows(picked, i + 1, ascending)
         \o (IF i \in picked THEN <<Block(1, ServerRows[i])>> ELSE <<>>)

\* many rows: query k has two pages, each a quick win
GeneratedPages ==
    [ i \in 1..ManyRows |->
        Block(1, PageRow(<<"q", ToString((i + 1) \div 2)>>,
                         IF i % 2 = 1 THEN PageA ELSE PageB,
                         i % 3, 200 + 20 * ((i * 7) % 11), <<1, 100>>,
                         <<4 + (i % 5), 1>>)) ]

\* a response with many rows, the last of them a row of the site
GeneratedRows == GeneratedPages \o <<Block(1, ServerRows[3])>>

\* what the service may answer to an opportunity tool
OpportunityResponses ==
    { RemoteData(None, None), RemoteData(Some(GeneratedRows), Some("auto")) }
    \cup { RemoteData(Some(PickRows(picked, 1, TRUE)), Some("auto")) :
             picked \in SUBSET (1..Len(ServerRows)) }
    \cup { RemoteData(Some(PickRows(picked, 1, FALSE)), Some("auto")) :
             picked \in { 1..Len(ServerRows), {1, 2}, {3, 4}, {1, 2, 3, 4} } }

\* what the service may answer to an export of rowLimit rows
ExportResponses(rowLimit) ==
    { RemoteData(None, None), RemoteData(Some(<<>>), Some("auto")),
      RemoteData(Some(<<Block(Min(rowLimit, 2), ServerRows[1])>>), Some("auto")),
      RemoteData(Some(<<Block(1, ServerRows[1]), Block(rowLimit - 1, RawBare)>>),
                 Some("auto")) }

\* response.data of the sitemap and URL inspection endpoints
ServiceData(fields) == fields @@ RemoteData(None, None)

IndexStatus(verdict, googleCanonical, userCanonical) ==
    [ verdict |-> verdict, googleCanonical |-> googleCanonical,
      userCanonical |-> userCanonical ]

InspectionResponses ==
    { ServiceData([inspectionResult |-> None]),
      ServiceData([inspectionResult |-> Some([indexStatusResult |-> None])]),
      ServiceData([inspectionResult |->
          Some([indexStatusResult |-> Some(IndexStatus(Some("PASS"), Some(PageA), Some(PageA)))])]),
      ServiceData([inspectionResult |->
          Some([indexStatusResult |-> Some(IndexStatus(Some("FAIL"), Some(PageA), None))])]) }

FeedPath == HttpsPrefix \o <<"a",".","i","o">> \o <<"/","s",".","x","m","l">>

\* what the service may answer to the request of a client operation
ServerResponses(c, name) ==
    IF c.op = "searchAnalytics"
    THEN IF name \in OpportunityToolNames THEN OpportunityResponses
         ELSE ExportResponses(c.reqRowLimit)
    ELSE IF c.op = "inspectUrl" THEN InspectionResponses
    ELSE IF c.op = "listSitemaps"
    THEN { ServiceData([sitemap |-> None]),
           ServiceData([sitemap |-> Some(<<Some(FeedPath), None>>)]) }
    ELSE IF c.op = "getSitemap"
    THEN { ServiceData([path |-> None]), ServiceData([path |-> Some(FeedPath)]) }
    ELSE { RemoteData(None, None) }

ExportToolArgs ==
    { ServerArgs(Some(SiteDomain), Some(QueryDates), rl, dims, <<>>) :
        rl \in {None, Some(2), Some(MAX_ROWS_PER_REQUEST)},
        dims \in {None, Some(<<"query", "page">>)} }

OpportunityToolArgs ==
    { ServerArgs(Some(SiteDomain), dates, None, None,
                 [ format |-> format, minImpressions |-> minImpressions, maxCtr |-> maxCtr,
                   minPosition |-> minPosition, maxPosition |-> None, limit |-> limit ]) :
        dates \in {None},
        format \in {None, Some("compact")},
        minImpressions \in {None, Some(30)},
        maxCtr \in {None, Some(<<1, 20>>)},
        minPosition \in {None, Some(<<3, 1>>)},
        limit \in {None, Some(0), Some(1), Some(2)} }
    \cup { ServerArgs(Some(SiteDomain), Some(QueryDates), None, None,
                      [ format |-> None, minImpressions |-> None, maxCtr |-> None,
                        minPosition |-> None, maxPosition |-> Some(<<9, 1>>),
                        limit |-> None ]) }

SitemapToolArgs == { ServerArgs(Some(SiteDomain), None, None, None, [feedpath |-> Some(FeedPath)]) }

\* the URL lists of a batch: none, empty, one, two, and one too many
UrlLists ==
    { None, Some(<<>>), Some(<<PageA>>), Some(<<PageA, PageB>>),
      Some([i \in 1..TooManyUrls |-> PageA]) }

InspectionToolArgs ==
    { ServerArgs(Some(SiteDomain), None, None, None,
                 [inspectionUrl |-> Some(PageA), urls |-> urls]) : urls \in UrlLists }

\* the search analytics tools as the server specification calls them: a
\* query with and without a row limit the schema rejects, and a comparison
ServerQueryToolArgs ==
    { ToolArgs(Some(SiteDomain), rl, None, Some(<<"query">>), None, Some(QueryDates),
               None, None) : rl \in {None, Some(MAX_ROWS_PER_REQUEST + 1)} }

ServerCompareToolArgs ==
    { ToolArgs(Some(SiteDomain), Some(2), None, Some(<<"query">>), None, None,
               Some(Period1), Some(Period2)) }

InitServer ==
    /\ client = [s \in Slots |-> IdleClient]
    /\ tool = IdleTool
    /\ rollup = IdleRollup
    /\ timezone = 0
    /\ formatter = IdleFormatter /\ cache = EmptyCache /\ resource = IdleResource

NextServer ==
    \/ \E name \in ExportToolNames, args \in ExportToolArgs, ok \in BOOLEAN :
          ToolCall(name, args, None, ok, "readonly", Today)
    \/ \E name \in OpportunityToolNames, args \in OpportunityToolArgs, ok \in BOOLEAN :
          ToolCall(name, args, None, ok, "readonly", Today)
    \/ \E name \in SitemapToolNames, args \in SitemapToolArgs, ok \in BOOLEAN,
          scope \in Scopes :
          ToolCall(name, args, None, ok, scope, Today)
    \/ \E name \in UrlInspectionToolNames, args \in InspectionToolArgs, ok \in BOOLEAN,
          scope \in Scopes :
          ToolCall(name, args, None, ok, scope, Today)
    \/ \E args \in ServerQueryToolArgs, ok \in BOOLEAN :
          ToolCall("searchanalytics.query", args, None, ok, "readonly", Today)
    \/ \E args \in ServerCompareToolArgs, ok \in BOOLEAN :
          ToolCall("report.comparePeriods", args, None, ok, "readonly", Today)
    \/ ToolCall("gsc.nothing", NoArgs, None, TRUE, "full", Today)
    \/ \E s \in Slots : \E data \in ServerResponses(client[s], tool.name) :
          RemoteResponse(s, data)
    \/ \E s \in Slots, error \in ToolErrors : RemoteFailure(s, error)
    \/ \E s \in Slots : BackoffElapsed(s)

SpecServer == InitServer /\ [][NextServer]_vars

(***************************************************************************)
(* Properties of the server                                                *)
(***************************************************************************)
\* a tool was called without a row limit of the caller
NoCallerRowLimit == tool.pc # "idle" /\ ~IsSome(tool.args.rowLimit)

\* C11 (as claimed): every tool that accepts a row limit uses 25 when the
\* caller supplies none: the export tools then ask the client for 25 rows.
C11_DefaultRowLimitIs25 ==
    (tool.name \in ExportToolNames /\ NoCallerRowLimit /\ client[1].pc # "idle")
    => client[1].query.rowLimit = Some(DEFAULT_ROW_LIMIT)

\* no remote request has left the process
NoRemoteCall == \A s \in Slots : client[s].calls = <<>>

\* a tool that requires full scope was called under the readonly scope
NeedsFullUnderReadonly ==
    tool.pc # "idle" /\ tool.name \in FullScopeToolNames /\ tool.scope = "readonly"

\* the payload is the upgrade instruction for the tool
IsUpgradeMessage(result, name) ==
    /\ result.isError
    /\ result.error.message =
         << "The \"", name,
            "\" feature requires full scope access.\nTo upgrade, run: gsc-mcp init --scope full" >>

\* C12 (as claimed): whenever a tool that requires full scope is called under
\* the readonly scope, it returns the upgrade instruction as an error payload
\* and issues no remote call.
C12_ReadonlyAlwaysGetsUpgradeMessage ==
    NeedsFullUnderReadonly =>
      /\ tool.pc = "done"
      /\ IsUpgradeMessage(tool.result, tool.name)
      /\ NoRemoteCall

\* C12 (amended): a tool that requires full scope, called under the readonly
\* scope, returns at once with an error payload and issues no remote call; the
\* payload is the upgrade instruction for the URL inspection tools always and
\* for sitemaps.submit and sitemaps.delete when the stored credentials load
\* (their handler creates the client before it checks the scope, so with
\* unusable credentials the payload is the credential failure).  Under the
\* full scope the payload is never the upgrade instruction and, credentials
\* loading, the operation's request is issued.  hasScope('readonly') is true
\* under either scope.
C12_ScopeCheckedBeforeRemoteCall ==
    /\ NeedsFullUnderReadonly =>
         /\ tool.pc = "done" /\ tool.result.isError /\ NoRemoteCall
         /\ (tool.name \in UrlInspectionToolNames \/ tool.credentialsOk)
              => IsUpgradeMessage(tool.result, tool.name)
         /\ (tool.name \in SitemapToolNames /\ ~tool.credentialsOk)
              => tool.result = ErrorResult(ErrCredentials)
    /\ (tool.pc # "idle" /\ tool.name \in FullScopeToolNames /\ tool.scope = "full") =>
         /\ ~IsUpgradeMessage(tool.result, tool.name)
         /\ (tool.credentialsOk /\ tool.name # "urlInspection.batchInspect") => ~NoRemoteCall
    /\ \A scope \in Scopes : HasScope("readonly", scope)

\* sitemaps.submit under the readonly scope, credentials loading, has
\* returned the upgrade instruction
C12_Witness ==
    /\ NeedsFullUnderReadonly /\ tool.name = "sitemaps.submit" /\ tool.credentialsOk
    /\ tool.pc = "done" /\ IsUpgradeMessage(tool.result, tool.name)

\* the handler awaits one client operation and rethrows its failure
RethrowsClientFailure ==
    tool.name \in ToolNames \ {"urlInspection.batchInspect", "sitemaps.get"}

\* the handler creates the client before anything else can end it
CreatesClientFirst ==
    tool.name \in ToolNames /\ ~(tool.name \in UrlInspectionToolNames /\ tool.scope = "readonly")

\* C13: handleToolCall never throws, whatever the tool name and the
\* arguments: a failure raised inside a handler comes back as a payload with
\* isError = true that carries the failure's message, be it a remote failure
\* (permanent, or after the retries are exhausted), a schema validation
\* failure, a credential failure or a read of a missing argument; an unknown
\* tool name gives an isError payload without any remote call.
C13_FailuresBecomeErrorPayloads ==
    tool.pc # "idle" =>
      /\ (RethrowsClientFailure /\ \E s \in Slots : client[s].pc = "threw") =>
           /\ tool.pc = "done" /\ tool.result.isError
           /\ \E s \in Slots : /\ client[s].pc = "threw"
                               /\ tool.result.error = Get(client[s].thrown)
      /\ (CreatesClientFirst /\ ~tool.credentialsOk) =>
           /\ tool.pc = "done" /\ tool.result.isError
           /\ tool.result.error = ErrCredentials /\ NoRemoteCall
      /\ (tool.name = "searchanalytics.query" /\ tool.credentialsOk
            /\ ViolatesQueryShape(tool.args)) =>
           /\ tool.pc = "done" /\ tool.result.isError
           /\ tool.result.error = ErrValidation /\ NoRemoteCall
      /\ (tool.name = "urlInspection.batchInspect" /\ tool.credentialsOk
            /\ tool.scope = "full" /\ ~IsSome(tool.args.urls)) =>
           tool.pc = "done" /\ tool.result.isError /\ NoRemoteCall
      /\ tool.name \notin ToolNames =>
           tool.pc = "done" /\ tool.result.isError /\ NoRemoteCall

\* an export whose request failed with a retryable error at every attempt
\* has returned that error as its payload
C13_Witness ==
    /\ tool.name = "export.csv" /\ tool.pc = "done" /\ tool.result.isError
    /\ client[1].pc = "threw" /\ client[1].attempt = MAX_RETRIES
    /\ tool.result.error = Err503

\* a batch inspection that got past the scope check and the client's creation
BatchRuns ==
    /\ tool.pc # "idle" /\ tool.name = "urlInspection.batchInspect"
    /\ tool.scope = "full" /\ tool.credentialsOk /\ IsSome(tool.args.urls)

\* the verdict the service gave for the inspection of slot i, if any
ServiceVerdict(i) ==
    LET ir == client[i].result.inspectionResult IN
    IF IsSome(ir) /\ IsSome(Get(ir).indexStatusResult)
    THEN Some(Get(Get(ir).indexStatusResult).verdict) ELSE None

\* C14: urlInspection.batchInspect with at most 10 URLs returns one result
\* per input URL, in input order, each with its own URL and either the
\* outcome of that URL's inspection or that inspection's own error message;
\* failed inspections never make the batch an error payload and never remove
\* the results of the others.  A batch of more than 10 URLs is rejected
\* before any inspection is issued.
C14_BatchKeepsEveryResult ==
    BatchRuns =>
      LET urls == Get(tool.args.urls) IN
      IF Len(urls) > 10
      THEN tool.pc = "done" /\ tool.result.isError /\ NoRemoteCall
      ELSE /\ tool.pc = "done" <=> \A i \in 1..Len(urls) : client[i].pc \in {"returned", "threw"}
           /\ tool.pc = "done" =>
                /\ ~tool.result.isError
                /\ Len(tool.result.body.results) = Len(urls)
                /\ \A i \in 1..Len(urls) :
                     LET entry == tool.result.body.results[i] IN
                     /\ entry.url = urls[i]
                     /\ client[i].pc = "returned" =>
                          /\ "error" \notin DOMAIN entry
                          /\ IsSome(entry.indexStatus) = IsSome(ServiceVerdict(i))
                          /\ IsSome(entry.indexStatus) =>
                               Get(entry.indexStatus).verdict = Get(ServiceVerdict(i))
                     /\ client[i].pc = "threw" =>
                          /\ "indexStatus" \notin DOMAIN entry
                          /\ entry.error = Get(client[i].thrown).message

\* a batch of two URLs has returned: the first inspection failed, the second
\* passed
C14_Witness ==
    /\ BatchRuns /\ tool.pc = "done" /\ Len(Get(tool.args.urls)) = 2
    /\ client[1].pc = "threw" /\ client[2].pc = "returned"
    /\ tool.result.body.summary.indexed = 1

\* opportunities.lowCtrHighPos has returned its payload
LowCtrDone ==
    tool.pc = "done" /\ tool.name = "opportunities.lowCtrHighPos" /\ ~tool.result.isError

\* an argument of the call, or the default the tool documents for it
ArgOr(field, default) ==
    IF IsSome(tool.args[field]) THEN Get(tool.args[field]) ELSE default

\* the rows the client handed to the tool
ClientRows == RowsOrEmpty(client[1].result.rows)

\* a/b <= c/d for positive denominators
RatLeq(a, b) == a[1] * b[2] <= b[1] * a[2]

\* the row is a quick win under the arguments of the call
Qualifies(row) ==
    /\ row.impressions >= ArgOr("minImpressions", 100)
    /\ RatLeq(row.ctr, ArgOr("maxCtr", <<3, 100>>))
    /\ ~RatEqual(row.ctr, ArgOr("maxCtr", <<3, 100>>))
    /\ RatLeq(ArgOr("minPosition", <<4, 1>>), row.position)
    /\ RatLeq(row.position, ArgOr("maxPosition", <<20, 1>>))

\* r is impressions * 0.05 - clicks rounded to the nearest integer, a half up
IsRounded(r, row) ==
    /\ 20 * r - 10 <= row.impressions - 20 * row.clicks
    /\ row.impressions - 20 * row.clicks < 20 * r + 10

\* the fields of a reported row, whose names depend on the format
ReportedQuery(o) == IF "q" \in DOMAIN o THEN o.q ELSE o.query
ReportedImpressions(o) == IF "imp" \in DOMAIN o THEN o.imp ELSE o.impressions
ReportedPotential(o) == IF "potential" \in DOMAIN o THEN o.potential ELSE o.potentialClicks

\* the reported row o is the input row
Reports(o, row) ==
    /\ ReportedQuery(o) = Get(row.keys)[1].text
    /\ Len(o.page) <= Len(Get(row.keys)[2].text)
    /\ \A j \in 1..Len(o.page) :
         o.page[j] = Get(row.keys)[2].text[Len(Get(row.keys)[2].text) - Len(o.page) + j]
    /\ o.clicks = row.clicks /\ ReportedImpressions(o) = row.impressions
    /\ IsRounded(ReportedPotential(o), row)

\* the sum of the reported potential clicks
ReportedTotal(out) ==
    LET T[k \in 0..Len(out)] == IF k = 0 THEN 0 ELSE T[k - 1] + ReportedPotential(out[k])
    IN  T[Len(out)]

\* C18: opportunities.lowCtrHighPos returns exactly the rows with impressions
\* >= minImpressions, ctr < maxCtr and minPosition <= position <= maxPosition
\* (defaults 100, 0.03, 4, 20), each with potentialClicks = round(impressions
\* * 0.05 - clicks), ordered by potentialClicks descending and cut to the
\* first `limit` (default 25); the total it reports is the sum over the
\* returned rows only; the row with impressions 1000 and clicks 10 has
\* potentialClicks 40.
C18_QuickWinsFilteredSortedCut ==
    LowCtrDone =>
      LET out == tool.result.body.opportunities
          rows == ClientRows
          wins == { i \in 1..Len(rows) : Qualifies(rows[i]) }
          shown == { i \in wins : \E k \in 1..Len(out) : Reports(out[k], rows[i]) }
      IN  /\ Len(out) = Min(ArgOr("limit", 25), Cardinality(wins))
          /\ Cardinality(shown) = Len(out)
          /\ \A k \in 1..Len(out) : \E i \in wins : Reports(out[k], rows[i])
          /\ \A k \in 1..Len(out), l \in 1..Len(out) :
               k < l => ReportedPotential(out[k]) >= ReportedPotential(out[l])
          /\ \A i \in wins \ shown :
               Len(out) > 0 =>
                 rows[i].impressions - 20 * rows[i].clicks
                   < 20 * ReportedPotential(out[Len(out)]) + 10
          /\ \A k \in 1..Len(out) :
               (ReportedImpressions(out[k]) = 1000 /\ out[k].clicks = 10)
                 => ReportedPotential(out[k]) = 40
          /\ IF Compact(tool.args)
             THEN tool.result.body.summary.text =
                    "Found " \o ToString(Len(out)) \o " quick wins with "
                    \o ToString(ReportedTotal(out)) \o " potential clicks"
             ELSE /\ tool.result.body.summary.opportunitiesFound = Len(out)
                  /\ tool.result.body.summary.totalPotentialClicks = ReportedTotal(out)

\* a call with every argument at its default on more quick wins than the
\* default limit: 25 rows are returned, the first being the row with
\* impressions 1000, clicks 10 and potentialClicks 40
C18_Witness ==
    /\ LowCtrDone
    /\ \A f \in {"minImpressions", "maxCtr", "minPosition", "maxPosition", "limit", "format"} :
         ~IsSome(tool.args[f])
    /\ Len(ClientRows) > 25
    /\ Len(tool.result.body.opportunities) = 25
    /\ tool.result.body.opportunities[1].impressions = 1000
    /\ tool.result.body.opportunities[1].potentialClicks = 40
    /\ tool.result.body.summary.totalPotentialClicks
         = ReportedTotal(tool.result.body.opportunities)

\* opportunities.cannibalization has returned its payload
CannibalizationDone ==
    tool.pc = "done" /\ tool.name = "opportunities.cannibalization" /\ ~tool.result.isError

\* the query and the page of a row of the client
QueryOf(row) == Get(row.keys)[1].text
PageOf(row) == Get(row.keys)[2].text

\* the indices of the rows whose query is q
RowsOfQuery(rows, q) == { i \in 1..Len(rows) : QueryOf(rows[i]) = q }

\* the distinct pages the rows hold for the query q
DistinctPages(rows, q) == { PageOf(rows[i]) : i \in RowsOfQuery(rows, q) }

\* the impressions of the query q, summed over its rows
SummedImpressions(rows, q) ==
    LET T[i \in 0..Len(rows)] ==
          IF i = 0 THEN 0
          ELSE T[i - 1] + (IF QueryOf(rows[i]) = q THEN rows[i].impressions ELSE 0)
    IN  T[Len(rows)]

\* the queries with at least two distinct pages and enough impressions
CompetingQueries(rows) ==
    { q \in { QueryOf(rows[i]) : i \in 1..Len(rows) } :
        /\ Cardinality(DistinctPages(rows, q)) >= 2
        /\ SummedImpressions(rows, q) >= ArgOr("minImpressions", 50) }

\* the page p of an issue is the row of the client, formatted
ReportsPage(p, row) ==
    /\ Len(p.page) <= Len(PageOf(row))
    /\ \A j \in 1..Len(p.page) : p.page[j] = PageOf(row)[Len(PageOf(row)) - Len(p.page) + j]
    /\ p.clicks = row.clicks /\ ReportedImpressions(p) = row.impressions
    /\ p.position = FormatPosition(row.position)

\* the rows hold one row per query and page
OneRowPerPage(rows) ==
    \A i \in 1..Len(rows), j \in 1..Len(rows) :
      (QueryOf(rows[i]) = QueryOf(rows[j]) /\ PageOf(rows[i]) = PageOf(rows[j])) => i = j

\* C19: opportunities.cannibalization reports a query as an issue if and only
\* if it has at least 2 distinct pages and its summed impressions are >=
\* minImpressions (default 50); within an issue the pages are ascending by
\* position and totalImpressions is the sum over its pages; the issues are
\* descending by totalImpressions and cut to `limit` (default 25). Stated for
\* answers of the service that hold one row per query and page.
C19_CompetingQueriesSortedCut ==
    CannibalizationDone =>
      \A rows \in {ClientRows} : \A competing \in {CompetingQueries(rows)} :
        LET out == tool.result.body.issues
        IN  OneRowPerPage(rows) =>
          /\ Len(out) = Min(ArgOr("limit", 25), Cardinality(competing))
          /\ \A k \in 1..Len(out) :
               /\ out[k].query \in competing
               /\ out[k].totalImpressions = SummedImpressions(rows, out[k].query)
               /\ Len(out[k].pages) = Cardinality(RowsOfQuery(rows, out[k].query))
               /\ \A i \in RowsOfQuery(rows, out[k].query) :
                    \E j \in 1..Len(out[k].pages) : ReportsPage(out[k].pages[j], rows[i])
               /\ \A j \in 1..(Len(out[k].pages) - 1) :
                    out[k].pages[j].position <= out[k].pages[j + 1].position
          /\ \A k \in 1..Len(out), l \in 1..Len(out) :
               k < l => /\ out[k].query # out[l].query
                        /\ out[k].totalImpressions >= out[l].totalImpressions
          /\ \A q \in competing :
               (Len(out) > 0 /\ \A k \in 1..Len(out) : out[k].query # q)
                 => SummedImpressions(rows, q) <= out[Len(out)].totalImpressions
          /\ Compact(tool.args) \/ tool.result.body.summary.issuesFound = Len(out)

\* a call with every argument at its default on more competing queries than
\* the default limit, next to a query with a single page: 25 issues are
\* returned, the single page is not among them
C19_Witness ==
    /\ CannibalizationDone
    /\ ~IsSome(tool.args.minImpressions) /\ ~IsSome(tool.args.limit)
    /\ Len(tool.result.body.issues) = 25
    /\ \A k \in 1..25 : tool.result.body.issues[k].query # Socks
    /\ \A rows \in {ClientRows} :
         /\ OneRowPerPage(rows)
         /\ Cardinality(CompetingQueries(rows)) > 25
         /\ Cardinality(DistinctPages(rows, Socks)) = 1

\* the best position among the rows of the query q is below 5
BestBelowFive(rows, q) ==
    \E i \in RowsOfQuery(rows, q) : RatLess(rows[i].position, <<5, 1>>)

\* the first words of the recommendation to consolidate
ConsiderConsolidating ==
    << "C","o","n","s","i","d","e","r"," ","c","o","n","s","o","l","i","d","a","t","i","n","g" >>

\* the text holds the word at offset n
HoldsAt(text, word, n) ==
    /\ n + Len(word) <= Len(text)
    /\ \A j \in 1..Len(word) : text[n + j] = word[j]

\* the text of the three options that make the menu
MenuOptions ==
    << << "1",")"," ","C","o","n","s","o","l","i","d","a","t","e" >>,
       << "2",")"," ","D","i","f","f","e","r","e","n","t","i","a","t","e" >>,
       << "3",")"," ","U","s","e"," ","c","a","n","o","n","i","c","a","l"," ","t","a","g","s" >> >>

\* C20: in every cannibalization issue the recommendation is chosen by the
\* best-ranked page of the group: below position 5 the text starts with
\* "Consider consolidating" and names that page, otherwise it is the menu of
\* three options; pages at 3.2 and 7.8 with impressions 500 and 300 give one
\* issue with the pages in that order and the recommendation to consolidate.
C20_RecommendationByBestPage ==
    CannibalizationDone =>
      \A rows \in {ClientRows} :
        OneRowPerPage(rows) =>
          \A k \in 1..Len(tool.result.body.issues) :
            LET issue == tool.result.body.issues[k]
                text == issue.recommendation
                group == RowsOfQuery(rows, issue.query)
            IN  /\ BestBelowFive(rows, issue.query)
                     => /\ StartsWith(text, ConsiderConsolidating)
                        /\ \E n \in 0..Len(text) : HoldsAt(text, issue.pages[1].page, n)
                        /\ \E i \in group :
                             /\ ReportsPage(issue.pages[1], rows[i])
                             /\ \A j \in group : ~RatLess(rows[j].position, rows[i].position)
                /\ ~BestBelowFive(rows, issue.query)
                     => /\ ~StartsWith(text, ConsiderConsolidating)
                        /\ \A o \in 1..Len(MenuOptions) :
                             \E n \in 0..Len(text) : HoldsAt(text, MenuOptions[o], n)
                /\ (issue.totalImpressions = 800 /\ Len(issue.pages) = 2
                      /\ issue.pages[1].position = 32 /\ issue.pages[2].position = 78)
                     => StartsWith(text, ConsiderConsolidating)

\* the service answered with the page at 7.8 before the page at 3.2, for 300
\* and 500 impressions: one issue, the page at 3.2 first, to consolidate into
\* /a
C20_Witness ==
    /\ CannibalizationDone
    /\ \A rows \in {ClientRows} :
         /\ Len(rows) = 2
         /\ rows[1].position = <<78, 10>> /\ rows[2].position = <<32, 10>>
         /\ rows[1].impressions = 300 /\ rows[2].impressions = 500
    /\ Len(tool.result.body.issues) = 1
    /\ tool.result.body.issues[1].pages[1].position = 32
    /\ tool.result.body.issues[1].pages[2].position = 78
    /\ tool.result.body.issues[1].recommendation
         = ConsolidatePrefix \o <<"/", "a">> \o ConsolidateSuffix

(***************************************************************************)
(* The formatting specification: stripUrlPrefix and formatRows applied to  *)
(* bounded inputs                                                          *)
(***************************************************************************)
ExampleCom == <<"e","x","a","m","p","l","e",".","c","o","m">>
OtherCom == <<"o","t","h","e","r",".","c","o","m">>

\* absolute URLs: on the property's host with and without a path, on its www
\* host, over http, on other hosts, and on hosts and paths that merely begin
\* like the property's
FormatUrls ==
    { HttpsPrefix \o ExampleCom \o <<"/","b","l","o","g","/","p","o","s","t">>,
      HttpsPrefix \o OtherCom \o <<"/","x">>,
      HttpsPrefix \o ExampleCom,
      HttpsPrefix \o WwwPrefix \o ExampleCom \o <<"/","a">>,
      HttpPrefix \o ExampleCom \o <<"/","a">>,
      HttpsPrefix \o ExampleCom \o <<".","a","u","/","x">>,
      HttpsPrefix \o ExampleCom \o <<"/","b","l","o","g","g","e","r">>,
      HttpsPrefix \o <<"b","l","o","g",".">> \o ExampleCom \o <<"/","p">> }

\* property identifiers: the domain form and URL-prefix forms
FormatSiteUrls ==
    { ScDomainPrefix \o ExampleCom,
      HttpsPrefix \o ExampleCom \o <<"/">>,
      HttpsPrefix \o ExampleCom \o <<"/","b","l","o","g","/">>,
      HttpPrefix \o ExampleCom \o <<"/">> }

\* rows without keys, with an empty key array, with one, and with two keys
FormatRowChoices ==
    { Row(None, 3, 30, <<1, 10>>, <<10, 10>>),
      Row(Some(<<>>), 4, 44, <<1, 11>>, <<123, 100>>),
      Row(Some(<<TextKey(Shoes)>>), 10, 1000, <<1, 100>>, <<1234, 100>>),
      Row(Some(<<DateKey(2024, 1, 8)>>), 1, 3, <<1, 3>>, <<5, 4>>),
      Row(Some(<<TextKey(Shoes),
                 TextKey(HttpsPrefix \o ExampleCom \o <<"/","a">>)>>), 7, 600, <<7, 600>>,
          <<78, 10>>) }

MaxFormatRows == 2

FormatRowInputs ==
    {None} \cup { Some(rows) : rows \in UNION { [1..n -> FormatRowChoices] :
                                                  n \in 0..MaxFormatRows } }

FormatNames == {None, Some("full"), Some("compact")}

InitFormat ==
    /\ client = [s \in Slots |-> IdleClient]
    /\ tool = IdleTool
    /\ rollup = IdleRollup
    /\ timezone = 0
    /\ cache = EmptyCache /\ resource = IdleResource
    /\ formatter \in
         { [IdleFormatter EXCEPT !.pc = "ready", !.fn = "stripUrlPrefix", !.url = url,
                                 !.siteUrl = Some(siteUrl)] :
             url \in FormatUrls, siteUrl \in FormatSiteUrls }
         \cup
         { [IdleFormatter EXCEPT !.pc = "ready", !.fn = "formatRows", !.rows = rows,
                                 !.format = format, !.siteUrl = siteUrl] :
             rows \in FormatRowInputs, format \in FormatNames,
             siteUrl \in {None, Some(ScDomainPrefix \o ExampleCom)} }

\* stripUrlPrefix is applied to its arguments
ApplyStripUrlPrefix ==
    /\ formatter.pc = "ready" /\ formatter.fn = "stripUrlPrefix"
    /\ formatter' = [formatter EXCEPT !.pc = "done",
                                      !.out = StripUrlPrefix(formatter.url, formatter.siteUrl)]
    /\ UNCHANGED <<client, tool, rollup, timezone, cache, resource>>

\* formatRows is applied to its arguments
ApplyFormatRows ==
    /\ formatter.pc = "ready" /\ formatter.fn = "formatRows"
    /\ formatter' = [formatter EXCEPT !.pc = "done",
                                      !.out = FormatRows(formatter.rows, formatter.format,
                                                         formatter.siteUrl)]
    /\ UNCHANGED <<client, tool, rollup, timezone, cache, resource>>

NextFormat == ApplyStripUrlPrefix \/ ApplyFormatRows

SpecFormat == InitFormat /\ [][NextFormat]_vars

(***************************************************************************)
(* Properties of the formatting                                            *)
(***************************************************************************)
\* the index of the first "/" of a URL after its "://", or one past its end
HostEnd(url) ==
    LET start == (CHOOSE i \in 1..Len(url) : url[i] = ":") + 3
        slashes == { i \in start..Len(url) : url[i] = "/" }
    IN  IF slashes = {} THEN Len(url) + 1
        ELSE CHOOSE i \in slashes : \A j \in slashes : i <= j

\* the scheme and the host of an absolute URL, and its path
SchemeAndHost(url) == SubSeq(url, 1, HostEnd(url) - 1)
PathOf(url) == IF HostEnd(url) > Len(url) THEN <<"/">> ELSE SubSeq(url, HostEnd(url), Len(url))

\* the scheme+host prefixes of a property
PropertyPrefixes(siteUrl) ==
    IF StartsWith(siteUrl, ScDomainPrefix)
    THEN LET domain == SubSeq(siteUrl, Len(ScDomainPrefix) + 1, Len(siteUrl))
         IN  { HttpsPrefix \o domain, HttpsPrefix \o WwwPrefix \o domain,
               HttpPrefix \o domain, HttpPrefix \o WwwPrefix \o domain }
    ELSE {SchemeAndHost(siteUrl)}

StripDone == formatter.pc = "done" /\ formatter.fn = "stripUrlPrefix"

\* C21 (as claimed): for every absolute URL u and every property identifier,
\* stripUrlPrefix returns u unmodified when no scheme+host prefix of the
\* property matches u, and otherwise only the path of u, a string beginning
\* with "/" ("/" itself when nothing remains after the prefix).
C21_StripsToPathOrKeeps ==
    StripDone =>
      IF SchemeAndHost(formatter.url) \in PropertyPrefixes(Get(formatter.siteUrl))
      THEN formatter.out = PathOf(formatter.url) /\ formatter.out[1] = "/"
      ELSE formatter.out = formatter.url

FormatDone == formatter.pc = "done" /\ formatter.fn = "formatRows"

\* the number of keys of a row
KeyCount(row) == IF IsSome(row.keys) THEN Len(Get(row.keys)) ELSE 0

\* the key o is the key k, or the path that remains of it
IsKeyOf(o, k) ==
    /\ o.kind = k.kind /\ o.y = k.y /\ o.m = k.m /\ o.d = k.d
    /\ Len(o.text) <= Len(k.text)
    /\ \A j \in 1..Len(o.text) : o.text[j] = k.text[Len(k.text) - Len(o.text) + j]

\* t is x = num / den scaled by `scale` and rounded to the nearest integer
RoundedTo(t, x, scale) ==
    /\ 2 * (scale * x[1] - t * x[2]) <= x[2]
    /\ 2 * (t * x[2] - scale * x[1]) <= x[2]

\* the fields a compact row must have for its number of keys
CompactFields(n) ==
    {"clicks", "imp", "ctr", "pos"}
    \cup (IF n = 1 THEN {"key"} ELSE IF n >= 2 THEN {"keys"} ELSE {})

\* C22: formatRow emits, in compact format, `key` (a scalar) for a row with
\* exactly one key, `keys` (an array) for a row with two or more keys and
\* neither for a row without keys, plus clicks, imp, ctr (a percentage string)
\* and pos; in full format it emits keys, clicks, impressions, ctr and
\* position; in both formats clicks and impressions are the input row's
\* values, and formatRows puts out one row per input row, in the same order.
C22_FormatRowShapes ==
    FormatDone =>
      LET rows == IF IsSome(formatter.rows) THEN Get(formatter.rows) ELSE <<>>
          out == formatter.out
      IN  /\ Len(out) = Len(rows)
          /\ \A i \in 1..Len(rows) :
               IF formatter.format = Some("compact")
               THEN /\ DOMAIN out[i] = CompactFields(KeyCount(rows[i]))
                    /\ out[i].clicks = rows[i].clicks /\ out[i].imp = rows[i].impressions
                    /\ out[i].ctr = [text |-> ToFixed2(100 * rows[i].ctr[1], rows[i].ctr[2]) \o "%"]
                    /\ RoundedTo(out[i].pos, rows[i].position, 10)
                    /\ KeyCount(rows[i]) = 1 => IsKeyOf(out[i].key, Get(rows[i].keys)[1])
                    /\ KeyCount(rows[i]) >= 2 =>
                         /\ Len(out[i].keys) = KeyCount(rows[i])
                         /\ \A k \in 1..Len(out[i].keys) :
                              IsKeyOf(out[i].keys[k], Get(rows[i].keys)[k])
               ELSE /\ DOMAIN out[i] = {"keys", "clicks", "impressions", "ctr", "position"}
                    /\ out[i].clicks = rows[i].clicks
                    /\ out[i].impressions = rows[i].impressions
                    /\ RoundedTo(out[i].ctr.tenThousandths, rows[i].ctr, 10000)
                    /\ RoundedTo(out[i].position, rows[i].position, 10)
                    /\ IsSome(out[i].keys) = IsSome(rows[i].keys)
                    /\ IsSome(rows[i].keys) =>
                         /\ Len(Get(out[i].keys)) = KeyCount(rows[i])
                         /\ \A k \in 1..KeyCount(rows[i]) :
                              IsKeyOf(Get(out[i].keys)[k], Get(rows[i].keys)[k])

\* compact rows of a one-key row and then a two-key row: `key` is the query,
\* `keys` holds the query and the page without the property's prefix, and
\* the ctr of 1000 impressions and 10 clicks reads "1.00%"
C22_Witness ==
    /\ FormatDone /\ formatter.format = Some("compact") /\ IsSome(formatter.siteUrl)
    /\ Len(formatter.out) = 2
    /\ DOMAIN formatter.out[1] = {"key", "clicks", "imp", "ctr", "pos"}
    /\ formatter.out[1].key = TextKey(Shoes) /\ formatter.out[1].ctr = [text |-> "1.00%"]
    /\ formatter.out[1].pos = 123
    /\ DOMAIN formatter.out[2] = {"keys", "clicks", "imp", "ctr", "pos"}
    /\ formatter.out[2].keys = <<TextKey(Shoes), TextKey(<<"/", "a">>)>>

(***************************************************************************)
(* The cache specification: the operations of one CacheStore               *)
(***************************************************************************)
MaxCacheOps == 4
MaxClock == 3

\* the ttl a store is created with, in clock ticks
CacheTtls == {1, 2}

SiteA == <<"s","c","-","d","o","m","a","i","n",":","a">>
QueryByQuery == <<<<"startDate", "2024-01-01">>, <<"dimensions", "query">>>>
QueryByPage == <<<<"startDate", "2024-01-01">>, <<"dimensions", "page">>>>

\* the (siteUrl, query) pairs the store is asked about
CacheKeys == {<<SiteA, QueryByQuery>>, <<SiteA, QueryByPage>>}

\* the responses stored: any string, the empty one included
CacheResponses == {"", "[]"}

InitCache ==
    /\ client = [s \in Slots |-> IdleClient]
    /\ tool = IdleTool
    /\ rollup = IdleRollup
    /\ timezone = 0
    /\ formatter = IdleFormatter /\ resource = IdleResource
    /\ cache \in { [EmptyCache EXCEPT !.ttl = ttl] : ttl \in CacheTtls }

NextCache ==
    \/ \E key \in CacheKeys, response \in CacheResponses :
          Len(cache.log) < MaxCacheOps /\ Set(key[1], key[2], response)
    \/ \E key \in CacheKeys : Len(cache.log) < MaxCacheOps /\ Fetch(key[1], key[2])
    \/ Len(cache.log) < MaxCacheOps /\ ClearExpiredCalled
    \/ Len(cache.log) < MaxCacheOps /\ ClearAllCalled
    \/ ClockAdvances(1, MaxClock)

SpecCache == InitCache /\ [][NextCache]_vars

(***************************************************************************)
(* Properties of the cache                                                 *)
(***************************************************************************)
\* the log entry i is a set of the key of siteUrl and query
SetsKey(log, i, siteUrl, query) ==
    log[i].op = "set" /\ log[i].siteUrl = siteUrl /\ log[i].query = query

\* the set at i is the latest of its key before n, and no clearAll follows it
\* before n
LatestSet(log, i, n) ==
    /\ log[i].op = "set"
    /\ \A j \in (i + 1)..(n - 1) :
         ~SetsKey(log, j, log[i].siteUrl, log[i].query) /\ log[j].op # "clearAll"

\* a get returns a response only if it is that of the latest set of its key,
\* not followed by a clearAll and expiring strictly later than the get
GetReturnsLatestLiveSet ==
    \A n \in 1..Len(cache.log) :
      (n = Len(cache.log) /\ cache.log[n].op = "get" /\ IsSome(cache.returned)) =>
        \E i \in 1..(n - 1) :
          /\ SetsKey(cache.log, i, cache.log[n].siteUrl, cache.log[n].query)
          /\ LatestSet(cache.log, i, n)
          /\ cache.log[i].response = Get(cache.returned)
          /\ cache.log[i].at + cache.ttl > cache.log[n].at

\* the store holds at most one entry per key
OneEntryPerKey ==
    \A e1, e2 \in cache.entries :
      (e1.site_url = e2.site_url /\ e1.query = e2.query) => e1 = e2

\* the entries are those of the latest sets that no clearAll followed and that
\* had not expired at any clearExpired that followed
EntriesAreLiveSets ==
    LET n == Len(cache.log) + 1
        live == { i \in 1..Len(cache.log) :
                    /\ LatestSet(cache.log, i, n)
                    /\ \A j \in (i + 1)..Len(cache.log) :
                         cache.log[j].op = "clearExpired" =>
                           cache.log[i].at + cache.ttl > cache.log[j].at }
    IN  { <<e.site_url, e.query, e.response, e.expires_at>> : e \in cache.entries }
        = { <<cache.log[i].siteUrl, Stringify(cache.log[i].query), cache.log[i].response,
              cache.log[i].at + cache.ttl>> : i \in live }

\* the queries of CacheKeys whose serialisation is the stored one
QueriesOf(e) == { key \in CacheKeys : key[1] = e.site_url /\ Stringify(key[2]) = e.query }

\* every unexpired entry is retrievable: get gives its response
UnexpiredRetrievable ==
    \A e \in cache.entries :
      e.expires_at > cache.now =>
        \A key \in QueriesOf(e) : CacheStoreGet(cache, key[1], key[2]) = Some(e.response)

\* C30 (as claimed): after any sequence of set, get, clearExpired and clearAll,
\* get returns a response only if it is the response of the most recent set
\* of that key, set less than ttl ago and not followed by a clearAll; the store
\* holds at most one entry per key; and clearExpired removes exactly the
\* entries whose expiry is <= now, leaving every unexpired entry retrievable.
C30_CacheStoreContract ==
    /\ GetReturnsLatestLiveSet
    /\ OneEntryPerKey
    /\ EntriesAreLiveSets
    /\ UnexpiredRetrievable

(***************************************************************************)
(* The repeated-request specification: searchanalytics.query requested     *)
(* again and again of one server, while the clock runs                     *)
(***************************************************************************)
\* the clock is followed for MaxTtls times the ttl, in steps of half a ttl
MaxTtls == 2

RepeatToolArgs ==
    { ToolArgs(Some("sc-domain:example.com"), rl, None, dims, None, Some(QueryDates),
               None, None) :
        rl \in {None, Some(DEFAULT_ROW_LIMIT)}, dims \in {Some(<<"query">>), Some(<<"date">>)} }

InitRepeat ==
    /\ client = [s \in Slots |-> IdleClient]
    /\ tool = IdleTool
    /\ rollup = IdleRollup
    /\ timezone = 0
    /\ formatter = IdleFormatter /\ cache = EmptyCache /\ resource = IdleResource

NextRepeat ==
    \/ \E args \in RepeatToolArgs, ok \in BOOLEAN :
          ToolCall("searchanalytics.query", args, None, ok, "readonly", Today)
    \/ \E args \in RepeatToolArgs, ok \in BOOLEAN :
          NextToolCall("searchanalytics.query", args, None, ok, "readonly", Today)
    \/ \E data \in ToolResponses(1, client[1].reqRowLimit) : RemoteResponse(1, data)
    \/ \E error \in ToolErrors : RemoteFailure(1, error)
    \/ BackoffElapsed(1)
    \/ ClockAdvances(DEFAULT_TTL_MS \div 2, MaxTtls * DEFAULT_TTL_MS)

SpecRepeat == InitRepeat /\ [][NextRepeat]_vars

\* the query has been answered with its rows
Answered == tool.pc = "done" /\ ~tool.result.isError /\ tool.name = "searchanalytics.query"

\* the step is a request for the query just answered, less than a ttl after
\* the server started and so less than a ttl after that answer
SameQueryAgain ==
    /\ Answered
    /\ tool' # tool /\ tool'.name = tool.name /\ tool'.args = tool.args
    /\ tool'.credentialsOk
    /\ cache'.now < cache'.ttl

\* C23 (as claimed): when the same search-analytics query (same site, same
\* query descriptor) is requested twice within the cache TTL, the second
\* request is answered from the cache, without a remote call being issued.
C23_SecondRequestFromCache ==
    [][SameQueryAgain => (tool'.pc = "done" /\ \A s \in Slots : client'[s].calls = <<>>)]_vars

(***************************************************************************)
(* The resource specification: the resources are listed, then one is read  *)
(***************************************************************************)
MaxSites == 2

\* the properties of the account: a domain property and a URL-prefix property
AccountSites == { ScDomainPrefix \o ExampleCom, HttpsPrefix \o ExampleCom \o <<"/">> }

\* what the listing of getAllResources gives: nothing, or up to MaxSites sites
Listings ==
    {None} \cup { Some(sites) : sites \in { q \in UNION { [1..n -> AccountSites] :
                                                            n \in 0..MaxSites } :
                                              \A i, j \in 1..Len(q) : q[i] = q[j] => i = j } }

\* URIs no listing advertises: the same resources written with an empty host,
\* a resource of another scheme and an unknown resource
OtherUris ==
    { <<"g","s","c",":","/","/","/","s","i","t","e","s">>,
      <<"g","s","c",":","/","/","/","s","i","t","e","s","/">> \o EncodeURIComponent(ScDomainPrefix \o ExampleCom) \o SitemapsSuffix,
      <<"h","t","t","p","s",":","/","/","s","i","t","e","s">>,
      <<"g","s","c",":","/","/","s","i","t","e","s","/","s","i","t","e","m","a","p","s">> }

Range(seq) == { seq[i] : i \in 1..Len(seq) }

InitResource ==
    /\ client = [s \in Slots |-> IdleClient]
    /\ tool = IdleTool
    /\ rollup = IdleRollup
    /\ timezone = 0
    /\ formatter = IdleFormatter /\ cache = EmptyCache /\ resource = IdleResource

NextResource ==
    \/ \E listing \in Listings : ListResources(listing)
    \/ \E uri \in Range(resource.resources) \cup OtherUris, ok \in BOOLEAN :
          ReadResource(uri, ok)
    \/ ReadSettles
    \/ \E data \in ServerResponses(client[1], "") : RemoteResponse(1, data)
    \/ \E error \in ToolErrors : RemoteFailure(1, error)
    \/ BackoffElapsed(1)

SpecResource == InitResource /\ [][NextResource]_vars

\* an advertised resource is being read, or has been, by an authenticated server
ReadsAdvertised ==
    /\ resource.pc \in {"awaiting", "done"}
    /\ resource.credentialsOk
    /\ resource.uri \in Range(resource.resources)

\* C24 (as claimed): every resource URI advertised by getAllResources is
\* accepted by handleResourceRead: gsc://sites is answered with the site list,
\* and the sitemaps URI of a site with the sitemap list of exactly that site,
\* neither fails with "Unknown resource".
C24_AdvertisedResourcesAreRead ==
    ReadsAdvertised =>
      /\ resource.error # ErrUnknownResource(resource.uri)
      /\ \A i \in 1..Len(resource.resources) :
           resource.resources[i] = resource.uri =>
             IF i = 1 THEN resource.operation = "listSites"
             ELSE resource.operation = "listSitemaps"
                  /\ resource.siteUrl = resource.sites[i - 1]

====
